---- MODULE Spec2Model ----
(***************************************************************************)
(* Model of the ai-testing-mcp server (src/src/index.ts): the tool         *)
(* registry, the CallTool dispatcher, the tool handlers' call contracts    *)
(* and the two transports (standard-stream through the MCP SDK Server,     *)
(* HTTP / JSON-RPC 2.0 through runHTTP).                                   *)
(*                                                                         *)
(* JavaScript values that travel through JSON are written as text: a       *)
(* string bare, a number by its digits, null as "null"; the missing value  *)
(* is "undefined".                                                         *)
(***************************************************************************)
EXTENDS Integers, Sequences, FiniteSets, TLC

VARIABLES
    env,        \* process.env, as read by the entry point and authenticateRequest
    transport,  \* the adapter the entry point started: "stdio" or "http"
    conn,       \* the requests in flight, one slot each
    faulted,    \* a Failure envelope has been sent since the process started
    listed,     \* what the discovery method has returned so far, and whether
                \* each list was returned after a Failure envelope
    exitCode,   \* the code process.exit was called with, undefined before
    walk        \* a directory tree and what getAllFiles returned for it

vars == <<env, transport, conn, faulted, listed, exitCode, walk>>

\* Number of requests that can be in flight at the same time.
MaxConn == 1

Conns == 1..MaxConn

(***************************************************************************)
(* JavaScript values                                                       *)
(***************************************************************************)
Undefined == "undefined"
Null == "null"

\* The values of this model that JavaScript coerces to false.
Falsy == {"undefined", "null", "0", "", "false"}

Truthy(v) == v \notin Falsy

\* a || b on JSON values
OrElse(a, b) == IF Truthy(a) THEN a ELSE b

\* An arguments value: undefined, null, or an object (a function from the
\* member names that are present to their values).
UndefinedArgs == [kind |-> "undefined"]
NullArgs == [kind |-> "null"]
Obj(o) == [kind |-> "object", obj |-> o]
EmptyObject == [f \in {} |-> Undefined]

\* A check that asks for a projectPath member whatever the tool.
ArgsMissingUnlessProject(a) ==
    a.kind \in {"undefined", "null"} \/ "projectPath" \notin DOMAIN a.obj

\* !args
ArgsMissing(a) == a.kind \in {"undefined", "null"}

\* args.f : a member that is not present reads as undefined
Get(a, f) == IF a.kind = "object" /\ f \in DOMAIN a.obj THEN a.obj[f] ELSE Undefined

(***************************************************************************)
(* Tool registry: the descriptor literals of the two discovery handlers    *)
(***************************************************************************)
Prop(d) == [type |-> "string", description |-> d]

Schema(props, req) == [type |-> "object", properties |-> props, required |-> req]

AnalyzeCodebaseTool ==
    [name |-> "analyze_codebase",
     description |-> "Analyze project structure and identify testable components",
     inputSchema |-> Schema([projectPath |-> Prop("Path to the project directory")],
                            <<"projectPath">>)]

GenerateUnitTestsTool ==
    [name |-> "generate_unit_tests",
     description |-> "Generate unit tests for specific functions or components",
     inputSchema |-> Schema([filePath |-> Prop("Path to the file to test"),
                             functionName |-> Prop("Specific function to test (optional)"),
                             testFramework |-> Prop("Testing framework to use (jest, mocha, pytest, etc.)")],
                            <<"filePath">>)]

GenerateIntegrationTestsTool ==
    [name |-> "generate_integration_tests",
     description |-> "Generate integration tests for API endpoints",
     inputSchema |-> Schema([projectPath |-> Prop("Path to the project directory"),
                             apiSpec |-> Prop("API specification or documentation")],
                            <<"projectPath">>)]

RunTestsTool ==
    [name |-> "run_tests",
     description |-> "Execute tests and return results",
     inputSchema |-> Schema([projectPath |-> Prop("Path to the project directory"),
                             testPattern |-> Prop("Test file pattern or specific test to run"),
                             framework |-> Prop("Test framework (auto-detected if not specified)")],
                            <<"projectPath">>)]

AnalyzeTestResultsTool ==
    [name |-> "analyze_test_results",
     description |-> "Analyze test results and provide insights",
     inputSchema |-> Schema([testOutput |-> Prop("Raw test output to analyze"),
                             projectPath |-> Prop("Path to the project directory")],
                            <<"testOutput">>)]

SuggestFixesTool ==
    [name |-> "suggest_fixes",
     description |-> "Analyze failing tests and suggest code fixes",
     inputSchema |-> Schema([failureOutput |-> Prop("Test failure output"),
                             sourceCode |-> Prop("Source code that failed"),
                             testCode |-> Prop("Test code that failed")],
                            <<"failureOutput">>)]

SetupTestingFrameworkTool ==
    [name |-> "setup_testing_framework",
     description |-> "Initialize testing framework in a project",
     inputSchema |-> Schema([projectPath |-> Prop("Path to the project directory"),
                             framework |-> Prop("Testing framework to set up (jest, mocha, pytest, etc.)"),
                             language |-> Prop("Programming language (javascript, python, go, etc.)")],
                            <<"projectPath", "framework", "language">>)]

\* The list returned by the ListToolsRequestSchema handler (standard stream).
StdioTools ==
    <<AnalyzeCodebaseTool, GenerateUnitTestsTool, GenerateIntegrationTestsTool,
      RunTestsTool, AnalyzeTestResultsTool, SuggestFixesTool,
      SetupTestingFrameworkTool>>

\* Variant of HttpTools: the registry loses a tool once a request has failed.
HttpToolsAfterFault ==
    IF faulted
    THEN <<AnalyzeCodebaseTool, GenerateUnitTestsTool>>
    ELSE <<AnalyzeCodebaseTool, GenerateUnitTestsTool, RunTestsTool>>

\* The list built by the tools/list branch of runHTTP.
HttpTools == <<AnalyzeCodebaseTool, GenerateUnitTestsTool, RunTestsTool>>

Range(s) == {s[i] : i \in DOMAIN s}

ToolNames(tools) == [i \in DOMAIN tools |-> tools[i].name]

(***************************************************************************)
(* The world outside the process: a small file system and the outcomes of  *)
(* the spawned test command.                                               *)
(***************************************************************************)
\* Project directories a caller may name: one that does not exist, one that
\* exists and holds no file, one that holds a small project.
ProjectPaths == {"/missing", "/empty", "/proj"}

\* Files a caller may name.
FilePaths == {"/missing.js", "/proj/a.js", "/proj/a.py", "/proj/a.txt"}

DirExists(p) == p \in {"/empty", "/proj", "/any"}

\* extname of a path given as its pieces: the last piece when it starts with
\* a dot, else ''.
extname(pieces) ==
    IF pieces[Len(pieces)] \in
          {".js", ".JS", ".ts", ".py", ".go", ".java", ".cpp", ".c", ".txt"}
    THEN pieces[Len(pieces)]
    ELSE ""

\* The regular files below a directory, as the walker meets them: the path,
\* the pieces it is written with, its extname, and the source text's
\* endpoints and function names as the regular expressions extract them.
ProjFiles ==
    <<[path |-> "/proj/a.js", pieces |-> <<"/proj/", "a", ".js">>,
       ext |-> extname(<<"/proj/", "a", ".js">>),
       endpoints |-> <<"GET /a">>, functions |-> <<"add">>],
      [path |-> "/proj/a.test.js", pieces |-> <<"/proj/", "a", ".test", ".js">>,
       ext |-> extname(<<"/proj/", "a", ".test", ".js">>),
       endpoints |-> <<>>, functions |-> <<>>],
      [path |-> "/proj/a.py", pieces |-> <<"/proj/", "a", ".py">>,
       ext |-> extname(<<"/proj/", "a", ".py">>),
       endpoints |-> <<>>, functions |-> <<"sub">>],
      [path |-> "/proj/a.txt", pieces |-> <<"/proj/", "a", ".txt">>,
       ext |-> extname(<<"/proj/", "a", ".txt">>),
       endpoints |-> <<>>, functions |-> <<>>]>>

DirFiles(p) == IF p = "/proj" THEN ProjFiles ELSE <<>>

FileExists(fp) == \E i \in DOMAIN ProjFiles : ProjFiles[i].path = fp

FileOf(fp) == ProjFiles[CHOOSE i \in DOMAIN ProjFiles : ProjFiles[i].path = fp]

\* What a project directory holds besides its sources: package.json (absent,
\* not parsable, or parsed with a set of dependencies), requirements.txt,
\* go.mod.
NoManifest == [pkg |-> "absent", deps |-> {}, requirements |-> FALSE, gomod |-> FALSE]

ProjManifests ==
    {[pkg |-> "parsed", deps |-> {"jest", "mocha", "express"}, requirements |-> FALSE, gomod |-> FALSE],
     [pkg |-> "parsed", deps |-> {"mocha"}, requirements |-> FALSE, gomod |-> TRUE],
     [pkg |-> "parsed", deps |-> {"vitest", "react"}, requirements |-> FALSE, gomod |-> FALSE],
     [pkg |-> "unparsable", deps |-> {}, requirements |-> TRUE, gomod |-> TRUE],
     [pkg |-> "absent", deps |-> {}, requirements |-> FALSE, gomod |-> TRUE],
     NoManifest}

\* Every combination of the three files: package.json absent, unparsable or
\* parsed with any of the three test frameworks among its dependencies,
\* requirements.txt and go.mod present or not.
AllManifests ==
    {[pkg |-> "parsed", deps |-> d, requirements |-> r, gomod |-> g] :
       d \in SUBSET {"jest", "mocha", "vitest"}, r \in BOOLEAN, g \in BOOLEAN}
    \cup {[pkg |-> k, deps |-> {}, requirements |-> r, gomod |-> g] :
             k \in {"absent", "unparsable"}, r \in BOOLEAN, g \in BOOLEAN}

\* What the directory p can hold; "/any" is a directory without sources that
\* can hold every combination.
Manifests(p) ==
    IF p = "/proj" THEN ProjManifests
    ELSE IF p = "/any" THEN AllManifests
    ELSE {NoManifest}

\* How the command started by exec can end: exit code 0 (with or without
\* output on stderr), a non-zero exit code, a failure to start, or the
\* timeout.  exec runs the command line in a shell; when the timeout elapses
\* it sends SIGTERM to that shell only, so the test runner the shell started
\* either ends with it or is left running.  left is the set of processes of
\* the call that run on after the callback of exec.
ExecOutcomes ==
    {[kind |-> "exit0", stdout |-> "PASS", stderr |-> "", left |-> {}],
     [kind |-> "exit0", stdout |-> "PASS", stderr |-> "warning", left |-> {}],
     [kind |-> "nonzero", stdout |-> "FAIL", stderr |-> "1 failed", left |-> {}],
     [kind |-> "spawnerror", stdout |-> "", stderr |-> "", left |-> {}],
     [kind |-> "timeout", stdout |-> "", stderr |-> "", left |-> {}],
     [kind |-> "timeout", stdout |-> "", stderr |-> "", left |-> {"runner"}]}

\* exec called without the timeout option: no timer ends the command.
ExecOutcomesUntimed(cwd) ==
    IF cwd = Undefined \/ DirExists(cwd)
    THEN {e \in ExecOutcomes : e.kind \notin {"spawnerror", "timeout"}}
    ELSE {e \in ExecOutcomes : e.kind = "spawnerror"}

\* A directory that does not exist cannot be the working directory.
ExecOutcomesIn(cwd) ==
    IF cwd = Undefined \/ DirExists(cwd)
    THEN {e \in ExecOutcomes : e.kind # "spawnerror"}
    ELSE {e \in ExecOutcomes : e.kind = "spawnerror"}

NoExec == [kind |-> "none", stdout |-> "", stderr |-> "", left |-> {}]

\* What one handler call finds outside the process.
World(m, u, e) == [manifest |-> m, unreadable |-> u, exec |-> e]

(***************************************************************************)
(* Handler outcomes                                                        *)
(***************************************************************************)
Return(v) == [t |-> "return", v |-> v]
Throw(m) == [t |-> "throw", m |-> m]

\* { content: [ { type: 'text', text } ] }
\* A result with a second block.
ContentWithNote(text) ==
    [content |-> <<[type |-> "text", text |-> text], [type |-> "text", text |-> "note"]>>]

Content(text) == [content |-> <<[type |-> "text", text |-> text]>>]

RECURSIVE JoinFrom(_, _, _)
JoinFrom(s, sep, i) ==
    IF i > Len(s) THEN ""
    ELSE IF i = Len(s) THEN s[i]
    ELSE s[i] \o sep \o JoinFrom(s, sep, i + 1)

\* Array.prototype.join
Join(s, sep) == JoinFrom(s, sep, 1)

Quote(s) == "\"" \o s \o "\""

QuoteAll(s) == [i \in DOMAIN s |-> Quote(s[i])]

RECURSIVE Flatten(_)
Flatten(ss) == IF ss = <<>> THEN <<>> ELSE Head(ss) \o Flatten(Tail(ss))

PathsOf(files) == [i \in DOMAIN files |-> files[i].path]

\* The message of the error a file-system call on path p raises.
FsError(op, p) ==
    IF p = Undefined
    THEN "The \"path\" argument must be of type string. Received undefined"
    ELSE "ENOENT: no such file or directory, " \o op \o " '" \o p \o "'"

(***************************************************************************)
(* Tool handlers                                                           *)
(***************************************************************************)
\* filePath.toLowerCase(), piece by piece.
toLowerCase(pieces) ==
    [i \in DOMAIN pieces |->
        CASE pieces[i] = "Spec" -> "spec"
          [] pieces[i] = "/Tests/" -> "/tests/"
          [] pieces[i] = ".JS" -> ".js"
          [] OTHER -> pieces[i]]

\* filename.includes(word) for the words 'test' and 'spec': some piece of the
\* path holds the word.
includes(pieces, word) ==
    \E i \in DOMAIN pieces :
       pieces[i] \in (IF word = "test" THEN {"/tests/", ".test", "contest"}
                      ELSE IF word = "spec" THEN {"spec", "/inspector/"}
                      ELSE {})

\* isTestFile looking at the path as it is written.
IsTestFileAsWritten(file) ==
    includes(file.pieces, "test") \/ includes(file.pieces, "spec")

\* The endsWith tests of isTestFile hold only where includes('test') or
\* includes('spec') does.
IsTestFile(file) ==
    LET filename == toLowerCase(file.pieces)
    IN  includes(filename, "test") \/ includes(filename, "spec")

IsSourceFile(file) ==
    file.ext \in {".js", ".ts", ".py", ".go", ".java", ".cpp", ".c"} /\ ~IsTestFile(file)

\* What the for loop over the scanned files pushes to the two lists.
TestableComponents(files) == PathsOf(SelectSeq(files, IsSourceFile))

ExistingTests(files) == PathsOf(SelectSeq(files, IsTestFile))

\* JSON.stringify(analysis, null, 2); a member that was never set is left out.
StringifyAnalysis(a) ==
    "{\"language\": " \o Quote(a.language)
    \o ", \"apiEndpoints\": [" \o Join(QuoteAll(a.apiEndpoints), ", ") \o "]"
    \o ", \"testableComponents\": [" \o Join(QuoteAll(a.testableComponents), ", ") \o "]"
    \o ", \"existingTests\": [" \o Join(QuoteAll(a.existingTests), ", ") \o "]"
    \o (IF a.testFramework = Undefined THEN ""
        ELSE ", \"testFramework\": " \o Quote(a.testFramework))
    \o (IF a.framework = Undefined THEN ""
        ELSE ", \"framework\": " \o Quote(a.framework))
    \o "}"

\* The endpoints the for loop collects from the .js, .ts and .py files.
ApiEndpoints(files) ==
    LET endpointFiles == SelectSeq(files, LAMBDA f : f.ext \in {".js", ".ts", ".py"})
    IN  Flatten([i \in DOMAIN endpointFiles |-> endpointFiles[i].endpoints])

\* The analysis after the two manifest checks and the for loop over files.
Analysis(m, files) ==
    LET parsed == m.pkg = "parsed"
    IN  [language |-> IF m.requirements THEN "python"
                      ELSE IF parsed THEN "javascript" ELSE "",
         testFramework |-> IF m.requirements THEN "pytest"
                           ELSE IF parsed /\ "jest" \in m.deps THEN "jest"
                           ELSE IF parsed /\ "mocha" \in m.deps THEN "mocha"
                           ELSE IF parsed /\ "vitest" \in m.deps THEN "vitest"
                           ELSE Undefined,
         framework |-> IF parsed /\ "react" \in m.deps THEN "react"
                       ELSE IF parsed /\ "vue" \in m.deps THEN "vue"
                       ELSE IF parsed /\ "express" \in m.deps THEN "express"
                       ELSE IF parsed /\ "fastify" \in m.deps THEN "fastify"
                       ELSE Undefined,
         apiEndpoints |-> ApiEndpoints(files),
         testableComponents |-> TestableComponents(files),
         existingTests |-> ExistingTests(files)]

\* The message of the error fs.readFile raises on a file it may not read.
ReadError(file) == "EACCES: permission denied, open '" \o file.path \o "'"

\* Variant of analyzeCodebase: a file that cannot be read ends the scan, and
\* what was collected up to it is returned.
analyzeCodebasePartial(projectPath, w) ==
    LET files == DirFiles(projectPath)
    IN  IF projectPath = Undefined \/ ~DirExists(projectPath)
        THEN Throw("Failed to analyze codebase: " \o FsError("scandir", projectPath))
        ELSE IF w.unreadable # 0
        THEN Return(Content(StringifyAnalysis(
                 Analysis(w.manifest, SubSeq(files, 1, w.unreadable - 1)))))
        ELSE Return(Content(StringifyAnalysis(Analysis(w.manifest, files))))

\* w.unreadable is the place, among the files getAllFiles returns, of the
\* first one that readFile fails on, 0 when all can be read.
analyzeCodebase(projectPath, w) ==
    LET files == DirFiles(projectPath)
    IN  IF projectPath = Undefined \/ ~DirExists(projectPath)
        THEN Throw("Failed to analyze codebase: " \o FsError("scandir", projectPath))
        ELSE IF w.unreadable # 0
        THEN Throw("Failed to analyze codebase: " \o ReadError(files[w.unreadable]))
        ELSE Return(Content(StringifyAnalysis(Analysis(w.manifest, files))))

RECURSIVE JSTestBlocks(_)
JSTestBlocks(funcs) ==
    IF funcs = <<>> THEN ""
    ELSE "describe('" \o Head(funcs) \o "', () => {...});\n\n" \o JSTestBlocks(Tail(funcs))

generateJSUnitTests(functions, functionName, framework) ==
    LET targetFunctions == IF Truthy(functionName) THEN <<functionName>> ELSE functions
    IN  IF framework = "jest"
        THEN "const { " \o Join(targetFunctions, ", ") \o " } = require('./source-file');\n\n"
             \o JSTestBlocks(targetFunctions)
        ELSE ""

RECURSIVE PyTestBlocks(_)
PyTestBlocks(funcs) ==
    IF funcs = <<>> THEN ""
    ELSE "class Test_" \o Head(funcs) \o ":...\n\n" \o PyTestBlocks(Tail(funcs))

generatePythonUnitTests(functions, functionName, framework) ==
    LET targetFunctions == IF Truthy(functionName) THEN <<functionName>> ELSE functions
    IN  "import pytest\nfrom source_file import " \o Join(targetFunctions, ", ") \o "\n\n"
        \o PyTestBlocks(targetFunctions)

generateUnitTests(filePath, functionName, testFramework) ==
    IF filePath = Undefined \/ ~FileExists(filePath)
    THEN Throw("Failed to generate unit tests: " \o FsError("open", filePath))
    ELSE LET file == FileOf(filePath)
         IN  IF file.ext \in {".js", ".ts"}
             THEN Return(Content(generateJSUnitTests(file.functions, functionName,
                                                     OrElse(testFramework, "jest"))))
             ELSE IF file.ext = ".py"
             THEN Return(Content(generatePythonUnitTests(file.functions, functionName,
                                                         OrElse(testFramework, "pytest"))))
             ELSE Throw("Failed to generate unit tests: Unsupported file type: " \o file.ext)

\* A detection that looks for go.mod before requirements.txt.
detectTestFrameworkGoFirst(m) ==
    IF m.pkg = "parsed" /\ "jest" \in m.deps THEN "jest"
    ELSE IF m.pkg = "parsed" /\ "mocha" \in m.deps THEN "mocha"
    ELSE IF m.pkg = "parsed" /\ "vitest" \in m.deps THEN "vitest"
    ELSE IF m.gomod THEN "go"
    ELSE IF m.requirements THEN "pytest"
    ELSE "jest"

detectTestFramework(m) ==
    IF m.pkg = "parsed" /\ "jest" \in m.deps THEN "jest"
    ELSE IF m.pkg = "parsed" /\ "mocha" \in m.deps THEN "mocha"
    ELSE IF m.pkg = "parsed" /\ "vitest" \in m.deps THEN "vitest"
    ELSE IF m.requirements THEN "pytest"
    ELSE IF m.gomod THEN "go"
    ELSE "jest"

\* The framework runTests goes by: the caller's, or the detected one.
RunTestsFramework(framework, m) ==
    IF ~Truthy(framework) THEN detectTestFramework(m) ELSE framework

\* command and args after the switch over the framework, undefined when the
\* default branch throws.
RunTestsWords(fw, testPattern) ==
    LET pat == IF Truthy(testPattern) THEN <<testPattern>> ELSE <<>>
    IN  IF fw = "jest" THEN <<"npx", "jest">> \o pat \o <<"--verbose", "--coverage">>
        ELSE IF fw = "pytest" THEN <<"python", "-m", "pytest">> \o pat \o <<"-v", "--cov=.">>
        ELSE IF fw = "go" THEN <<"go", "test">> \o pat \o <<"-v", "-cover">>
        ELSE Undefined

\* `${command} ${args.join(' ')}` for the three frameworks of the switch.
RunTestsCommand(fw, testPattern) ==
    IF RunTestsWords(fw, testPattern) = Undefined THEN Undefined
    ELSE Join(RunTestsWords(fw, testPattern), " ")

\* How /bin/sh reads a piece of the command line: blanks separate words, a
\* semicolon ends a command, quotes are removed and keep their text in one
\* word.
ShellTokens(text) ==
    CASE text = "a b" -> <<"a", "b">>
      [] text = "x; touch /tmp/p" -> <<"x", ";", "touch", "/tmp/p">>
      [] text = "'a b'" -> <<"a b">>
      [] OTHER -> <<text>>

\* The commands, each with its words, that /bin/sh -c runs for the tokens of
\* a line.
RECURSIVE ShellCommands(_, _)
ShellCommands(tokens, current) ==
    IF tokens = <<>> THEN (IF current = <<>> THEN <<>> ELSE <<current>>)
    ELSE IF Head(tokens) = ";"
    THEN (IF current = <<>> THEN <<>> ELSE <<current>>) \o ShellCommands(Tail(tokens), <<>>)
    ELSE ShellCommands(Tail(tokens), Append(current, Head(tokens)))

\* What exec makes the shell run for the joined line of the given words.
ShellRuns(words) ==
    ShellCommands(Flatten([i \in DOMAIN words |-> ShellTokens(words[i])]), <<>>)

\* The message of the error execAsync rejects with.
ExecError(cmd, e) ==
    IF e.kind = "spawnerror" THEN "spawn /bin/sh ENOENT"
    ELSE "Command failed: " \o cmd \o "\n" \o e.stderr

\* The message runTests catches, or undefined when nothing is thrown.
RunTestsFailure(testPattern, framework, w) ==
    LET fw == RunTestsFramework(framework, w.manifest)
        cmd == RunTestsCommand(fw, testPattern)
    IN  IF cmd = Undefined THEN "Unsupported test framework: " \o fw
        ELSE IF w.exec.kind # "exit0" THEN ExecError(cmd, w.exec)
        ELSE Undefined

\* Whatever the command wrote to stderr counts as nothing.
NoStderrEver(stderr) == TRUE

\* !stderr || stderr.length === 0
NoStderr(stderr) == ~Truthy(stderr) \/ stderr = ""

BoolText(b) == IF b THEN "true" ELSE "false"

\* JSON.stringify(result, null, 2) of a TestResult
StringifyTestResult(r) ==
    "{\"success\": " \o BoolText(r.success)
    \o ", \"output\": " \o Quote(r.output)
    \o ", \"errors\": " \o Quote(r.errors) \o "}"

\* Variant of runTests: the failure leaves the handler instead of being caught.
runTestsUncaught(projectPath, testPattern, framework, w) ==
    LET failure == RunTestsFailure(testPattern, framework, w)
    IN  IF failure = Undefined
        THEN Return(Content(StringifyTestResult([success |-> NoStderr(w.exec.stderr),
                                                 output |-> w.exec.stdout,
                                                 errors |-> w.exec.stderr])))
        ELSE Throw(failure)

runTests(projectPath, testPattern, framework, w) ==
    LET failure == RunTestsFailure(testPattern, framework, w)
        result == IF failure = Undefined
                  THEN [success |-> NoStderr(w.exec.stderr),
                        output |-> w.exec.stdout,
                        errors |-> w.exec.stderr]
                  ELSE [success |-> FALSE, output |-> "", errors |-> failure]
    IN  Return(Content(StringifyTestResult(result)))

generateIntegrationTests == Return(Content("Integration tests generation coming soon..."))

analyzeTestResults == Return(Content("Test results analysis coming soon..."))

suggestFixes == Return(Content("Fix suggestions coming soon..."))

setupTestingFramework == Return(Content("Testing framework setup coming soon..."))

(***************************************************************************)
(* Dispatch: the two switches over the tool name                           *)
(***************************************************************************)
Invocation(tool, h, params) == [tool |-> tool, handler |-> h, params |-> params]

\* No case of the switch matches: the default branch.
NoHandler == [tool |-> Undefined, handler |-> "none", params |-> EmptyObject]

\* switch (name) of the CallToolRequestSchema handler
StdioSwitch(name, args) ==
    CASE name = "analyze_codebase" ->
           Invocation(name, "analyzeCodebase", [projectPath |-> Get(args, "projectPath")])
      [] name = "generate_unit_tests" ->
           Invocation(name, "generateUnitTests",
                      [filePath |-> Get(args, "filePath"),
                       functionName |-> Get(args, "functionName"),
                       testFramework |-> Get(args, "testFramework")])
      [] name = "generate_integration_tests" ->
           Invocation(name, "generateIntegrationTests",
                      [projectPath |-> Get(args, "projectPath"),
                       apiSpec |-> Get(args, "apiSpec")])
      [] name = "run_tests" ->
           Invocation(name, "runTests",
                      [projectPath |-> Get(args, "projectPath"),
                       testPattern |-> Get(args, "testPattern"),
                       framework |-> Get(args, "framework")])
      [] name = "analyze_test_results" ->
           Invocation(name, "analyzeTestResults",
                      [testOutput |-> Get(args, "testOutput"),
                       projectPath |-> Get(args, "projectPath")])
      [] name = "suggest_fixes" ->
           Invocation(name, "suggestFixes",
                      [failureOutput |-> Get(args, "failureOutput"),
                       sourceCode |-> Get(args, "sourceCode"),
                       testCode |-> Get(args, "testCode")])
      [] name = "setup_testing_framework" ->
           Invocation(name, "setupTestingFramework",
                      [projectPath |-> Get(args, "projectPath"),
                       framework |-> Get(args, "framework"),
                       language |-> Get(args, "language")])
      [] OTHER -> NoHandler

\* Variant of HttpSwitch: the run_tests case is missing.
HttpSwitchWithoutRunTests(name, args) ==
    CASE name = "analyze_codebase" ->
           Invocation(name, "analyzeCodebase", [projectPath |-> Get(args, "projectPath")])
      [] name = "generate_unit_tests" ->
           Invocation(name, "generateUnitTests",
                      [filePath |-> Get(args, "filePath"),
                       functionName |-> Get(args, "functionName"),
                       testFramework |-> Get(args, "testFramework")])
      [] OTHER -> NoHandler

\* switch (name) of the tools/call branch of runHTTP
HttpSwitch(name, args) ==
    CASE name = "analyze_codebase" ->
           Invocation(name, "analyzeCodebase", [projectPath |-> Get(args, "projectPath")])
      [] name = "generate_unit_tests" ->
           Invocation(name, "generateUnitTests",
                      [filePath |-> Get(args, "filePath"),
                       functionName |-> Get(args, "functionName"),
                       testFramework |-> Get(args, "testFramework")])
      [] name = "run_tests" ->
           Invocation(name, "runTests",
                      [projectPath |-> Get(args, "projectPath"),
                       testPattern |-> Get(args, "testPattern"),
                       framework |-> Get(args, "framework")])
      [] OTHER -> NoHandler

\* What the invoked handler can find outside the process.
Worlds(inv) ==
    CASE inv.handler = "analyzeCodebase" ->
           {World(m, u, NoExec) :
              m \in Manifests(inv.params.projectPath),
              u \in 0 .. Len(DirFiles(inv.params.projectPath))}
      [] inv.handler = "runTests" ->
           UNION {{World(m, 0, e) :
                     e \in IF RunTestsCommand(RunTestsFramework(inv.params.framework, m),
                                              inv.params.testPattern) = Undefined
                           THEN {NoExec}
                           ELSE ExecOutcomesIn(inv.params.projectPath)} :
                  m \in Manifests(inv.params.projectPath)}
      [] OTHER -> {World(NoManifest, 0, NoExec)}

\* The commands the shell of exec has run for the handler call: those of the
\* line of runTests, when the shell could be started.  The fixed words of the
\* three commands are words to the shell as well; only the testPattern is
\* read by it.
Ran(inv, w) ==
    IF inv.handler = "runTests" /\ w.exec.kind \notin {"none", "spawnerror"}
    THEN LET words == RunTestsWords(RunTestsFramework(inv.params.framework, w.manifest),
                                    inv.params.testPattern)
         IN  IF Truthy(inv.params.testPattern) THEN ShellRuns(words) ELSE <<words>>
    ELSE <<>>

\* The handler call of the matching case, run to its end.
Invoke(inv, w) ==
    CASE inv.handler = "analyzeCodebase" -> analyzeCodebase(inv.params.projectPath, w)
      [] inv.handler = "generateUnitTests" ->
           generateUnitTests(inv.params.filePath, inv.params.functionName,
                             inv.params.testFramework)
      [] inv.handler = "generateIntegrationTests" -> generateIntegrationTests
      [] inv.handler = "runTests" ->
           runTests(inv.params.projectPath, inv.params.testPattern,
                    inv.params.framework, w)
      [] inv.handler = "analyzeTestResults" -> analyzeTestResults
      [] inv.handler = "suggestFixes" -> suggestFixes
      [] inv.handler = "setupTestingFramework" -> setupTestingFramework

\* The handler is entered and suspended at its first await.
Await(inv) == [t |-> "await", inv |-> inv]

(***************************************************************************)
(* JSON-RPC messages                                                       *)
(***************************************************************************)
NoParams == [kind |-> "undefined"]
Params(name, args) == [kind |-> "object", name |-> name, arguments |-> args]

\* A request body: text JSON.parse rejects, the JSON text null, or an object.
MalformedDoc == [t |-> "malformed"]
NullDoc == [t |-> "null"]
ObjDoc(method, id, params) == [t |-> "object", method |-> method, id |-> id, params |-> params]

ServerErrorCode == -32000

\* The metadata with another protocol version.
InitializeResultOtherVersion ==
    [protocolVersion |-> "2025-03-26",
     capabilities |-> [tools |-> EmptyObject],
     serverInfo |-> [name |-> "ai-testing-mcp", version |-> "1.0.0"]]

InitializeResult ==
    [protocolVersion |-> "2024-11-05",
     capabilities |-> [tools |-> EmptyObject],
     serverInfo |-> [name |-> "ai-testing-mcp", version |-> "1.0.0"]]

\* const response = { jsonrpc: '2.0', result: result, id: request.id || null }
HttpSuccess(result, doc) == [jsonrpc |-> "2.0", result |-> result, id |-> OrElse(doc.id, Null)]

\* Variant of HttpFailure: the error envelope keeps a result member.
HttpFailureWithResult(message) ==
    [jsonrpc |-> "2.0", result |-> Null,
     error |-> [code |-> ServerErrorCode, message |-> message], id |-> Null]

\* const errorResponse = { jsonrpc: '2.0', error: { code, message }, id: null }
HttpFailure(message) ==
    [jsonrpc |-> "2.0", error |-> [code |-> ServerErrorCode, message |-> message], id |-> Null]

\* The last else of the method chain answering like ping.
UnsupportedMethodAcknowledged(request) == Return(EmptyObject)

\* The last else of the method chain.
UnsupportedMethod(request) == Throw("Unsupported method: " \o request.method)

\* The 'end' handler of runHTTP from JSON.parse up to the response or to the
\* first await of a tool handler.
HttpDispatch(body) ==
    IF body = <<>> \/ body[1].t = "malformed"
    THEN Throw("Unexpected end of JSON input")
    ELSE LET request == body[1] IN
    IF request.t = "null"
    THEN Throw("Cannot read properties of null (reading 'method')")
    ELSE IF request.method = "initialize" THEN Return(InitializeResult)
    ELSE IF request.method = "tools/list" THEN Return([tools |-> HttpTools])
    ELSE IF request.method = "tools/call"
    THEN IF request.params.kind = "undefined"
         THEN Throw("Cannot destructure property 'name' of 'request.params' as it is undefined.")
         ELSE IF ArgsMissing(request.params.arguments)
         THEN Throw("Missing arguments")
         ELSE LET inv == HttpSwitch(request.params.name, request.params.arguments)
              IN  IF inv.handler = "none"
                  THEN Throw("Unknown tool: " \o request.params.name)
                  ELSE Await(inv)
    ELSE IF request.method = "ping" THEN Return(EmptyObject)
    ELSE IF request.method = "initialized" THEN Return(EmptyObject)
    ELSE UnsupportedMethod(request)

\* The catch clause of the CallToolRequestSchema handler.
StdioCaught(name, message) == Content("Error executing " \o name \o ": " \o message)

\* Variant of StdioDispatch: the arguments are not checked before the switch.
StdioDispatchUnchecked(params) ==
    LET inv == StdioSwitch(params.name, params.arguments)
    IN  IF inv.handler = "none"
        THEN Return(StdioCaught(params.name, "Unknown tool: " \o params.name))
        ELSE Await(inv)

\* The CallToolRequestSchema handler up to its return, its throw or the first
\* await of a tool handler.
StdioDispatch(params) ==
    IF ArgsMissing(params.arguments) THEN Throw("Missing arguments")
    ELSE LET inv == StdioSwitch(params.name, params.arguments)
         IN  IF inv.handler = "none"
             THEN Return(StdioCaught(params.name, "Unknown tool: " \o params.name))
             ELSE Await(inv)

\* The message the SDK Server sends for a request handler that returned.
StdioSuccess(result, id) == [jsonrpc |-> "2.0", id |-> id, result |-> result]

\* The message the SDK Server sends for a request handler that threw.
StdioFailure(message, id) == [jsonrpc |-> "2.0", id |-> id, error |-> [message |-> message]]

(***************************************************************************)
(* Requests a caller can send                                              *)
(***************************************************************************)
\* The id member of a request over HTTP: absent, 0, 2.
Ids == {Undefined, "0", "2"}

\* The id of a request over the standard stream (a message without an id is
\* a notification and reaches no request handler).
StdioIds == {"1", "2"}

AskedNames == Range(ToolNames(StdioTools)) \cup {"bogus"}

CoreArgs == {UndefinedArgs, NullArgs, Obj(EmptyObject), Obj([projectPath |-> "/proj"])}

\* The params of the tools/call requests.
CallParams ==
    {Params(n, a) : n \in AskedNames, a \in CoreArgs}
    \cup {Params(n, Obj([projectPath |-> p])) :
            n \in {"analyze_codebase", "run_tests"}, p \in ProjectPaths}
    \cup {Params("bogus", Obj([filePath |-> "/proj/a.js"]))}
    \cup {Params("run_tests", Obj([projectPath |-> "/proj", framework |-> f])) :
            f \in {"mocha", "pytest"}}
    \cup {Params("generate_unit_tests", Obj([filePath |-> fp])) : fp \in FilePaths}
    \cup {Params("generate_unit_tests",
                 Obj([filePath |-> "/proj/a.js", testFramework |-> "mocha"])),
          Params("analyze_test_results", Obj([testOutput |-> "1 failed"])),
          Params("suggest_fixes", Obj([failureOutput |-> "1 failed"])),
          Params("setup_testing_framework",
                 Obj([projectPath |-> "/proj", framework |-> "jest",
                      language |-> "javascript"]))}

\* The bodies POSTed to the MCP endpoint.
Docs ==
    {MalformedDoc, NullDoc}
    \cup {ObjDoc(m, id, NoParams) :
            m \in {"initialize", "tools/list", "tools/call", "ping", "initialized",
                   "resources/list", Undefined},
            id \in Ids}
    \cup {ObjDoc("tools/call", "2", p) : p \in CallParams}
    \cup {ObjDoc("tools/call", id, Params(n, Obj(EmptyObject))) :
            id \in Ids, n \in {"run_tests", "bogus"}}

\* The Authorization header: absent, or a value with or without the
\* 'Bearer ' prefix.
NoAuth == [present |-> FALSE, bearer |-> FALSE, rest |-> ""]
Auth(bearer, rest) == [present |-> TRUE, bearer |-> bearer, rest |-> rest]

AuthHeaders ==
    {NoAuth, Auth(TRUE, "default-dev-key"), Auth(FALSE, "default-dev-key"),
     Auth(TRUE, "secret"), Auth(FALSE, "")}

HttpReq(verb, url, auth, payload) ==
    [verb |-> verb, url |-> url, authorization |-> auth, payload |-> payload]

Urls == {"/", "/mcp", "/auth", "/health"}

\* req.url.includes('mcp')
UrlIncludesMcp(url) == url = "/mcp"

\* The body arrives in zero or one chunk.
HttpRequests ==
    {HttpReq("POST", "/mcp", NoAuth, <<d>>) : d \in Docs}
    \cup {HttpReq("POST", u, NoAuth, <<>>) : u \in Urls}
    \cup {HttpReq("POST", "/", a, <<ObjDoc("ping", "2", NoParams)>>) : a \in AuthHeaders}
    \cup {HttpReq("POST", "/auth", a, <<>>) : a \in AuthHeaders}
    \cup {HttpReq(v, u, NoAuth, <<>>) : v \in {"GET", "OPTIONS", "DELETE"}, u \in Urls}
    \cup {HttpReq("OPTIONS", "/mcp", NoAuth, <<ObjDoc("ping", "2", NoParams)>>)}

StdioRequests ==
    {HttpReq("stdin", Undefined, NoAuth, <<ObjDoc("tools/list", id, NoParams)>>) :
       id \in StdioIds}
    \cup {HttpReq("stdin", Undefined, NoAuth, <<ObjDoc("tools/call", "2", p)>>) :
            p \in CallParams}
    \cup {HttpReq("stdin", Undefined, NoAuth,
                  <<ObjDoc("tools/call", "1", Params(n, Obj(EmptyObject)))>>) :
            n \in {"run_tests", "bogus"}}

\* The environment variables the process reads.
ProcessEnvs ==
    {[VERCEL |-> Undefined, NODE_ENV |-> Undefined, MCP_API_KEY |-> Undefined],
     [VERCEL |-> "1", NODE_ENV |-> Undefined, MCP_API_KEY |-> Undefined]}

(***************************************************************************)
(* The process                                                             *)
(***************************************************************************)
\* An entry point that looks at VERCEL only.
EntryPointVercelOnly(e) == IF Truthy(e.VERCEL) THEN "http" ELSE "stdio"

\* The transport the module entry point starts.
EntryPoint(e) ==
    IF Truthy(e.VERCEL) \/ e.NODE_ENV = "production" THEN "http" ELSE "stdio"

\* The key read with ?? in place of ||: an empty MCP_API_KEY is the key.
authenticateRequestNullish(authHeader, e) ==
    LET apiKey == IF e.MCP_API_KEY = Undefined THEN "default-dev-key" ELSE e.MCP_API_KEY
        token == authHeader.rest
    IN  IF ~authHeader.present \/ (~authHeader.bearer /\ authHeader.rest = "")
        THEN FALSE
        ELSE token = apiKey

\* A header is the text rest, behind 'Bearer ' when bearer holds; a rest
\* without bearer does not start with 'Bearer '.
authenticateRequest(authHeader, e) ==
    LET apiKey == OrElse(e.MCP_API_KEY, "default-dev-key")
        token == authHeader.rest
    IN  IF ~authHeader.present \/ (~authHeader.bearer /\ authHeader.rest = "")
        THEN FALSE
        ELSE token = apiKey

CorsHeaders ==
    {"Access-Control-Allow-Origin", "Access-Control-Allow-Methods",
     "Access-Control-Allow-Headers"}

JsonType == {"Content-Type"}

NoWorld == World(NoManifest, 0, NoExec)

\* A request slot: pc is "free", "reading" (the body of a POST is being
\* received), "calling" (a tool handler is suspended at an await), "done"
\* (the handling of the request has returned) or "crashed" (an exception left
\* the handling uncaught).
FreeSlot ==
    [pc |-> "free", req |-> HttpReq(Undefined, Undefined, NoAuth, <<>>),
     headers |-> {}, body |-> <<>>, call |-> NoHandler, world |-> NoWorld,
     ran |-> <<>>, responses |-> <<>>]

\* A writeHead that drops the headers set before it.
HttpWriteOwnHeaders(s, status, ctype, body) ==
    [s EXCEPT !.pc = "done",
              !.responses = Append(@, [status |-> status, headers |-> ctype,
                                       body |-> body])]

\* res.writeHead(status, headers); res.end(body)
HttpWrite(s, status, ctype, body) ==
    [s EXCEPT !.pc = "done",
              !.responses = Append(@, [status |-> status,
                                       headers |-> s.headers \cup ctype,
                                       body |-> body])]

\* The SDK Server writes one message to the standard output.
StdioWrite(s, message) ==
    [s EXCEPT !.pc = "done", !.responses = Append(@, message)]

ServerInfo == [name |-> "AI Testing MCP Server", version |-> "1.0.0", status |-> "running"]

NotFound == [error |-> "Not found"]

\* No directory tree has been walked.
NoWalk ==
    [tree |-> {}, returned |-> FALSE, files |-> <<>>, stack |-> <<>>, failed |-> FALSE,
     scanned |-> <<>>, analysed |-> FALSE, testableComponents |-> <<>>,
     existingTests |-> <<>>]

\* The process runs until process.exit is called or a request handler lets an
\* exception escape.
Running == exitCode = Undefined /\ \A c \in DOMAIN conn : conn[c].pc # "crashed"

\* A catch clause that lets the exception go on: it leaves the 'end' handler.
HttpCatchRethrown(s, message) == [s EXCEPT !.pc = "crashed"]

\* The catch clause of the 'end' handler.
HttpCatch(s, message) == HttpWrite(s, 500, JsonType, HttpFailure(message))

\* The 'end' handler answering 200 from its catch clause too.
HttpReplyAlwaysOk(s, out) ==
    IF out.t = "return"
    THEN HttpWrite(s, 200, JsonType, HttpSuccess(out.v, s.body[1]))
    ELSE HttpWrite(s, 200, JsonType, HttpFailure(out.m))

\* The end of the try block of the 'end' handler, or its catch clause.
HttpReply(s, out) ==
    IF out.t = "return"
    THEN HttpWrite(s, 200, JsonType, HttpSuccess(out.v, s.body[1]))
    ELSE HttpCatch(s, out.m)

\* The CallToolRequestSchema handler without its catch clause: what the tool
\* handler throws leaves it, and the SDK Server sends an error.
StdioReplyUncaught(s, out) ==
    IF out.t = "return"
    THEN StdioWrite(s, StdioSuccess(out.v, s.body[1].id))
    ELSE StdioWrite(s, StdioFailure(out.m, s.body[1].id))

\* The end of the try block of the CallToolRequestSchema handler, or its
\* catch clause; the SDK Server sends what the handler returns.
StdioReply(s, out) ==
    IF out.t = "return"
    THEN StdioWrite(s, StdioSuccess(out.v, s.body[1].id))
    ELSE StdioWrite(s, StdioSuccess(StdioCaught(s.call.tool, out.m), s.body[1].id))

\* The bearer-token gate as it reads in the comment of the POST branch.
RouteMcpPostGated(r, s, e) ==
    IF authenticateRequest(r.authorization, e)
    THEN [s EXCEPT !.pc = "reading"]
    ELSE HttpWrite(s, 401, JsonType,
                   [jsonrpc |-> "2.0",
                    error |-> [code |-> -32001,
                               message |-> "Unauthorized. Please provide a valid API key in Authorization header."],
                    id |-> Null])

\* The POST branch of the listener up to its return: the bearer-token gate is
\* commented out, the 'data' and 'end' handlers are registered.
RouteMcpPost(r, s, e) == [s EXCEPT !.pc = "reading"]

\* The listener below its OPTIONS branch.
RouteAfterOptions(r, s, e) ==
    IF r.verb = "POST" /\ (r.url = "/mcp" \/ r.url = "/" \/ UrlIncludesMcp(r.url))
    THEN RouteMcpPost(r, s, e)
    ELSE IF r.verb = "GET"
    THEN IF UrlIncludesMcp(r.url) \/ r.url = "/"
         THEN HttpWrite(s, 200, JsonType, ServerInfo)
         ELSE HttpWrite(s, 404, JsonType, NotFound)
    ELSE IF r.verb = "POST" /\ r.url = "/auth"
    THEN IF authenticateRequest(r.authorization, e)
         THEN HttpWrite(s, 200, JsonType,
                        [authenticated |-> TRUE, message |-> "API key is valid"])
         ELSE HttpWrite(s, 401, JsonType,
                        [authenticated |-> FALSE,
                         message |-> "Invalid or missing API key"])
    ELSE HttpWrite(s, 404, JsonType, NotFound)

\* The listener without its OPTIONS branch.
RouteWithoutOptions(r, s, e) == RouteAfterOptions(r, s, e)

\* The request listener of runHTTP, up to its return.
Route(r, s, e) ==
    IF r.verb = "OPTIONS" THEN HttpWrite(s, 200, {}, "") ELSE RouteAfterOptions(r, s, e)

Init ==
    /\ env \in ProcessEnvs
    /\ transport = EntryPoint(env)
    /\ conn = [c \in Conns |-> FreeSlot]
    /\ faulted = FALSE
    /\ listed = {}
    /\ exitCode = Undefined
    /\ walk = NoWalk

\* A request of the given set reaches the listener of runHTTP, which sets the
\* CORS headers and routes it.
HttpRequestFrom(c, requests) ==
    /\ Running
    /\ transport = "http"
    /\ conn[c].pc = "free"
    /\ \E r \in requests :
         conn' = [conn EXCEPT ![c] =
                    Route(r, [FreeSlot EXCEPT !.req = r, !.headers = CorsHeaders], env)]
    /\ UNCHANGED <<exitCode, walk, env, transport, faulted, listed>>

HttpRequest(c) == HttpRequestFrom(c, HttpRequests)

\* A body kept in one variable of the server: a chunk is appended for every
\* request that is being received.
HttpDataShared(c) ==
    /\ Running
    /\ conn[c].pc = "reading"
    /\ Len(conn[c].body) < Len(conn[c].req.payload)
    /\ conn' = [d \in DOMAIN conn |->
                  IF conn[d].pc = "reading"
                  THEN [conn[d] EXCEPT !.body =
                          Append(@, conn[c].req.payload[Len(conn[c].body) + 1])]
                  ELSE conn[d]]
    /\ UNCHANGED <<exitCode, walk, env, transport, faulted, listed>>

\* req.on('data'): body += chunk
HttpData(c) ==
    /\ Running
    /\ conn[c].pc = "reading"
    /\ Len(conn[c].body) < Len(conn[c].req.payload)
    /\ conn' = [conn EXCEPT ![c].body =
                  Append(@, conn[c].req.payload[Len(conn[c].body) + 1])]
    /\ UNCHANGED <<exitCode, walk, env, transport, faulted, listed>>

\* req.on('end'): parse and dispatch, up to the response or the first await.
HttpEnd(c) ==
    /\ Running
    /\ conn[c].pc = "reading"
    /\ Len(conn[c].body) = Len(conn[c].req.payload)
    /\ LET s == conn[c]
           out == HttpDispatch(s.body)
       IN  /\ conn' = [conn EXCEPT ![c] =
                 IF out.t = "await"
                 THEN [s EXCEPT !.pc = "calling", !.call = out.inv]
                 ELSE HttpReply(s, out)]
           /\ faulted' = (faulted \/ out.t = "throw")
           /\ listed' = IF out.t = "return" /\ s.body[1].method = "tools/list"
                        THEN listed \cup {[tools |-> out.v.tools, afterFault |-> faulted]}
                        ELSE listed
    /\ UNCHANGED <<exitCode, walk, env, transport>>

\* The awaited tool handler of a tools/call over HTTP settles in the world w;
\* the 'end' handler resumes and responds.
HttpSettle(c, w) ==
    LET s == [conn[c] EXCEPT !.world = w]
        out == Invoke(s.call, w)
    IN  /\ conn' = [conn EXCEPT ![c] = [HttpReply(s, out) EXCEPT !.ran = Ran(s.call, w)]]
        /\ faulted' = (faulted \/ out.t = "throw")
        /\ UNCHANGED <<exitCode, walk, env, transport, listed>>

\* The awaited tool handler of a tools/call over the standard stream settles
\* in the world w; what it throws is caught by the CallToolRequestSchema
\* handler.
StdioSettle(c, w) ==
    LET s == [conn[c] EXCEPT !.world = w]
    IN  /\ conn' = [conn EXCEPT ![c] = [StdioReply(s, Invoke(s.call, w)) EXCEPT !.ran = Ran(s.call, w)]]
        /\ UNCHANGED <<exitCode, walk, env, transport, faulted, listed>>

\* The awaited handler settles without the timer of exec: its file reads
\* end, or the command it started ends or cannot be started.
HttpCallComplete(c) ==
    /\ Running
    /\ transport = "http"
    /\ conn[c].pc = "calling"
    /\ \E w \in Worlds(conn[c].call) : w.exec.kind # "timeout" /\ HttpSettle(c, w)

\* The SDK Server hands a tools/list request to the ListToolsRequestSchema
\* handler and sends what it returns.
StdioListTools(c) ==
    /\ Running
    /\ transport = "stdio"
    /\ conn[c].pc = "free"
    /\ \E r \in StdioRequests :
         /\ r.payload[1].method = "tools/list"
         /\ LET s == [FreeSlot EXCEPT !.req = r, !.body = r.payload]
                result == [tools |-> StdioTools]
            IN  /\ conn' = [conn EXCEPT ![c] =
                              StdioWrite(s, StdioSuccess(result, r.payload[1].id))]
                /\ listed' = listed \cup {[tools |-> result.tools, afterFault |-> faulted]}
    /\ UNCHANGED <<exitCode, walk, env, transport, faulted>>

\* The SDK Server hands a tools/call request of the given set to the
\* CallToolRequestSchema handler, which runs up to its return, its throw or
\* its first await.
StdioCallToolFrom(c, requests) ==
    /\ Running
    /\ transport = "stdio"
    /\ conn[c].pc = "free"
    /\ \E r \in requests :
         /\ r.payload[1].method = "tools/call"
         /\ LET s == [FreeSlot EXCEPT !.req = r, !.body = r.payload]
                id == r.payload[1].id
                out == StdioDispatch(r.payload[1].params)
            IN  /\ conn' = [conn EXCEPT ![c] =
                     CASE out.t = "return" -> StdioWrite(s, StdioSuccess(out.v, id))
                       [] out.t = "throw" -> StdioWrite(s, StdioFailure(out.m, id))
                       [] out.t = "await" -> [s EXCEPT !.pc = "calling", !.call = out.inv]]
                /\ faulted' = (faulted \/ out.t = "throw")
    /\ UNCHANGED <<exitCode, walk, env, transport, listed>>

StdioCallTool(c) == StdioCallToolFrom(c, StdioRequests)

\* The awaited handler settles without the timer of exec.
StdioCallComplete(c) ==
    /\ Running
    /\ transport = "stdio"
    /\ conn[c].pc = "calling"
    /\ \E w \in Worlds(conn[c].call) : w.exec.kind # "timeout" /\ StdioSettle(c, w)

\* The timer exec arms with timeout: 60000 fires while the command of a
\* runTests call still runs: exec kills the shell and rejects, runTests
\* catches the rejection and returns.
ExecTimeout(c) ==
    /\ Running
    /\ conn[c].pc = "calling"
    /\ \E w \in Worlds(conn[c].call) :
         /\ w.exec.kind = "timeout"
         /\ IF transport = "http" THEN HttpSettle(c, w) ELSE StdioSettle(c, w)

\* The part of the two completions that waits for no command: the handler
\* starts none, or the command cannot be started.
SettlesUnaided(c) ==
    /\ Running
    /\ conn[c].pc = "calling"
    /\ \E w \in Worlds(conn[c].call) :
         /\ w.exec.kind \in {"none", "spawnerror"}
         /\ IF transport = "http" THEN HttpSettle(c, w) ELSE StdioSettle(c, w)

\* The response has left the adapter; the request-scoped state is dropped.
Close(c) ==
    /\ Running
    /\ conn[c].pc = "done"
    /\ conn' = [conn EXCEPT ![c] = FreeSlot]
    /\ UNCHANGED <<exitCode, walk, env, transport, faulted, listed>>

Next ==
    \E c \in Conns :
       \/ HttpRequest(c)
       \/ HttpData(c)
       \/ HttpEnd(c)
       \/ HttpCallComplete(c)
       \/ StdioListTools(c)
       \/ StdioCallTool(c)
       \/ StdioCallComplete(c)
       \/ ExecTimeout(c)
       \/ Close(c)

Spec == Init /\ [][Next]_vars

(***************************************************************************)
(* Properties                                                              *)
(***************************************************************************)
\* The slot holds a POST to the MCP endpoint.
IsMcpPost(s) ==
    /\ transport = "http"
    /\ s.req.verb = "POST"
    /\ (s.req.url = "/mcp" \/ s.req.url = "/" \/ UrlIncludesMcp(s.req.url))

\* The JSON-RPC message the caller sent.
Doc(s) == IF s.req.payload = <<>> THEN MalformedDoc ELSE s.req.payload[1]

\* The slot holds a tools/call request.
IsCall(s) ==
    /\ s.pc # "free"
    /\ IsMcpPost(s) \/ transport = "stdio"
    /\ Doc(s).t = "object"
    /\ Doc(s).method = "tools/call"

\* The slot holds a tools/call request that has a params member, named n.
IsCallOf(s, n) == IsCall(s) /\ Doc(s).params.kind = "object" /\ Doc(s).params.name = n

HasArgsObject(s) == Doc(s).params.kind = "object" /\ Doc(s).params.arguments.kind = "object"

\* The JSON-RPC message sent in answer.
Envelope(s) == IF transport = "http" THEN s.responses[1].body ELSE s.responses[1]

IsSuccessEnv(e) == "result" \in DOMAIN e /\ "error" \notin DOMAIN e

IsFailureEnv(e) == "error" \in DOMAIN e /\ "result" \notin DOMAIN e

\* The descriptors the discovery method of the running transport returns.
Advertised == IF transport = "http" THEN HttpTools ELSE StdioTools

ToolByName(n) == StdioTools[CHOOSE i \in DOMAIN StdioTools : StdioTools[i].name = n]

\* C1: every POST to the MCP endpoint is answered at most once while it is
\* handled and exactly once when its handling has returned, by an envelope
\* that has exactly one of the members result and error.
C1_OneResponseOneMember ==
    \A c \in Conns :
       LET s == conn[c]
       IN  IsMcpPost(s) =>
             /\ Len(s.responses) <= 1
             /\ s.pc \in {"reading", "calling"} => Len(s.responses) = 0
             /\ s.pc = "done" =>
                  /\ Len(s.responses) = 1
                  /\ ("result" \in DOMAIN s.responses[1].body)
                       # ("error" \in DOMAIN s.responses[1].body)

\* A POST whose tool handler threw has been answered, by an error envelope.
C1_Witness ==
    \E c \in Conns :
       /\ IsMcpPost(conn[c])
       /\ conn[c].pc = "done"
       /\ conn[c].call.handler # "none"
       /\ Len(conn[c].responses) = 1
       /\ IsFailureEnv(conn[c].responses[1].body)

\* C2: every response to a POST on the MCP endpoint carries the id of the
\* request it answers, and null only if the request carried no id.
C2_IdEchoed ==
    \A c \in Conns :
       LET s == conn[c]
       IN  IsMcpPost(s) /\ s.pc = "done" =>
             s.responses[1].body.id =
                IF Doc(s).t = "object" /\ Doc(s).id # Undefined THEN Doc(s).id ELSE Null

\* C3: a tools/call that names a tool the transport does not advertise is
\* answered by a Failure envelope of the 'unknown tool' kind, and no tool
\* handler is invoked for it.
C3_UnknownToolIsFailure ==
    \A c \in Conns :
       LET s == conn[c]
       IN  /\ IsCall(s)
           /\ HasArgsObject(s)
           /\ Doc(s).params.name \notin Range(ToolNames(Advertised))
           => /\ s.call.handler = "none"
              /\ s.pc = "done" =>
                   /\ IsFailureEnv(Envelope(s))
                   /\ Envelope(s).error.message = "Unknown tool: " \o Doc(s).params.name

\* C4: a run_tests call with an arguments object is answered by a Success
\* envelope with a single text block; when the framework is not one runTests
\* supports, or the command does not end with exit code 0 (non-zero exit,
\* failure to start, timeout), the text is the JSON document with
\* success=false, output='' and errors set to the failure message.
C4_RunTestsAlwaysSuccessEnvelope ==
    \A c \in Conns :
       LET s == conn[c]
           args == Doc(s).params.arguments
           fw == RunTestsFramework(Get(args, "framework"), s.world.manifest)
           unsupported == fw \notin {"jest", "pytest", "go"}
           message == IF unsupported
                      THEN "Unsupported test framework: " \o fw
                      ELSE ExecError(RunTestsCommand(fw, Get(args, "testPattern")),
                                     s.world.exec)
       IN  IsCallOf(s, "run_tests") /\ HasArgsObject(s) /\ s.pc = "done" =>
             /\ Len(s.responses) = 1
             /\ IsSuccessEnv(Envelope(s))
             /\ Len(Envelope(s).result.content) = 1
             /\ Envelope(s).result.content[1].type = "text"
             /\ unsupported \/ s.world.exec.kind # "exit0" =>
                  Envelope(s).result.content[1].text =
                     StringifyTestResult([success |-> FALSE, output |-> "",
                                          errors |-> message])

\* run_tests on the directory that holds no file: the command exits with a
\* non-zero code and the call has been answered.
C4_Witness ==
    \E c \in Conns :
       /\ IsCallOf(conn[c], "run_tests")
       /\ HasArgsObject(conn[c])
       /\ Get(Doc(conn[c]).params.arguments, "projectPath") = "/empty"
       /\ conn[c].pc = "done"
       /\ conn[c].world.exec.kind = "nonzero"
       /\ IsSuccessEnv(Envelope(conn[c]))

\* C5: when analyzeCodebase or generateUnitTests fails (path that does not
\* exist or cannot be read, file type that is not supported), the call is
\* answered by a Success envelope, on either transport.
C5_ExecutionErrorIsSuccess ==
    \A c \in Conns :
       LET s == conn[c]
       IN  /\ IsCall(s)
           /\ s.pc = "done"
           /\ s.call.handler \in {"analyzeCodebase", "generateUnitTests"}
           /\ Invoke(s.call, s.world).t = "throw"
           => IsSuccessEnv(Envelope(s))

\* C6: a tools/call without an arguments member (undefined or null, or no
\* params at all) never reaches a tool handler and is answered by a Failure
\* envelope; when params is present the message is 'Missing arguments'.
C6_MissingArgumentsIsFailure ==
    \A c \in Conns :
       LET s == conn[c]
       IN  IsCall(s) /\ ~HasArgsObject(s) =>
             /\ s.call.handler = "none"
             /\ s.pc # "calling"
             /\ s.pc = "done" =>
                  /\ IsFailureEnv(Envelope(s))
                  /\ Doc(s).params.kind = "object" =>
                       Envelope(s).error.message = "Missing arguments"

\* A tools/call for an advertised tool, with params but without arguments,
\* has been answered.
C6_Witness ==
    \E c \in Conns :
       /\ IsCallOf(conn[c], "analyze_codebase")
       /\ ~HasArgsObject(conn[c])
       /\ conn[c].pc = "done"
       /\ IsFailureEnv(Envelope(conn[c]))

\* C7: no tool handler is invoked with a field undefined that the tool's
\* inputSchema lists under required.
C7_RequiredFieldsPresent ==
    \A c \in Conns :
       LET s == conn[c]
       IN  s.call.handler # "none" =>
             \A f \in Range(ToolByName(s.call.tool).inputSchema.required) :
                s.call.params[f] # Undefined

\* C8: tools/list over HTTP returns the seven descriptors the standard-stream
\* discovery returns, in the same order, and a tools/call over HTTP is
\* answered by the kind of envelope the standard-stream adapter gives for the
\* same name and arguments.
C8_HttpMatchesStdio ==
    transport = "http" =>
      /\ \A e \in listed :
            /\ e.tools = StdioTools
            /\ ToolNames(e.tools) =
                 <<"analyze_codebase", "generate_unit_tests",
                   "generate_integration_tests", "run_tests", "analyze_test_results",
                   "suggest_fixes", "setup_testing_framework">>
      /\ \A c \in Conns :
            LET s == conn[c]
            IN  IsCall(s) /\ Doc(s).params.kind = "object" /\ s.pc = "done" =>
                  IsSuccessEnv(Envelope(s)) = (StdioDispatch(Doc(s).params).t # "throw")

\* C9: on each transport, a tools/call with an arguments object reaches a
\* tool handler exactly when its tool name is among the names the discovery
\* method of that transport returns.
C9_AdvertisedIffDispatched ==
    /\ \A e \in listed : e.tools = Advertised
    /\ \A c \in Conns :
          LET s == conn[c]
          IN  IsCall(s) /\ HasArgsObject(s) /\ s.pc \in {"calling", "done"} =>
                (s.call.handler # "none")
                   = (Doc(s).params.name \in Range(ToolNames(Advertised)))

\* A tool the HTTP discovery advertises has been dispatched to its handler.
C9_Witness ==
    \E c \in Conns :
       /\ transport = "http"
       /\ IsCallOf(conn[c], "run_tests")
       /\ conn[c].pc = "calling"
       /\ conn[c].call.handler = "runTests"

\* C10: all discovery requests answered since the process started returned
\* the same tool list, whether they came before or after failed requests.
C10_DiscoveryStable ==
    \A e1, e2 \in listed : e1.tools = e2.tools

\* Discovery has answered both before and after a Failure envelope was sent.
C10_Witness ==
    \E e1, e2 \in listed : e1.afterFault /\ ~e2.afterFault


(***************************************************************************)
(* The subprocess of runTests                                              *)
(***************************************************************************)
\* The run_tests calls among the requests.
IsRunTestsRequest(r) ==
    /\ r.payload # <<>>
    /\ r.payload[1].t = "object"
    /\ r.payload[1].method = "tools/call"
    /\ r.payload[1].params.kind = "object"
    /\ r.payload[1].params.name = "run_tests"

HttpRunTests(c) ==
    HttpRequestFrom(c, {r \in HttpRequests : r.verb = "POST" /\ IsRunTestsRequest(r)})

StdioRunTests(c) == StdioCallToolFrom(c, {r \in StdioRequests : IsRunTestsRequest(r)})

\* The process when every request it receives is a run_tests call.
RunTestsNext ==
    \E c \in Conns :
       \/ HttpRunTests(c)
       \/ HttpData(c)
       \/ HttpEnd(c)
       \/ HttpCallComplete(c)
       \/ StdioRunTests(c)
       \/ StdioCallComplete(c)
       \/ ExecTimeout(c)
       \/ Close(c)

\* The event loop runs a timer that is due and a callback whose operation has
\* ended; nothing makes the command exec started end by itself.
LiveSpec ==
    /\ Init
    /\ [][RunTestsNext]_vars
    /\ \A c \in Conns : WF_vars(ExecTimeout(c)) /\ WF_vars(SettlesUnaided(c))

\* C11: every run_tests call that reached runTests is answered, whether or
\* not the command it started ever ends by itself; when the call ends by the
\* timeout of exec, the answer is a Success envelope whose text reports
\* success=false with the message of the failed command.
C11_RunTestsAnswered ==
    /\ \A c \in Conns :
          (IsCallOf(conn[c], "run_tests") /\ conn[c].pc = "calling")
             ~> (conn[c].pc = "done" /\ Len(conn[c].responses) = 1)
    /\ [](\A c \in Conns :
            LET s == conn[c]
                args == Doc(s).params.arguments
                fw == RunTestsFramework(Get(args, "framework"), s.world.manifest)
            IN  /\ IsCallOf(s, "run_tests")
                /\ s.pc = "done"
                /\ s.world.exec.kind = "timeout"
                => /\ IsSuccessEnv(Envelope(s))
                   /\ Envelope(s).result.content[1].text =
                        StringifyTestResult(
                          [success |-> FALSE, output |-> "",
                           errors |-> ExecError(RunTestsCommand(fw, Get(args, "testPattern")),
                                                s.world.exec)]))

\* A run_tests call has been answered after the timer of exec fired.
C11_Witness ==
    \E c \in Conns :
       /\ IsCallOf(conn[c], "run_tests")
       /\ conn[c].pc = "done"
       /\ conn[c].world.exec.kind = "timeout"
       /\ IsSuccessEnv(Envelope(conn[c]))


\* C12: when a run_tests call has ended by the timeout of exec, no process
\* started for it (the shell, the test runner the shell launched) is still
\* running once the call has been answered.
C12_TimeoutLeavesNoProcess ==
    \A c \in Conns :
       LET s == conn[c]
       IN  IsCallOf(s, "run_tests") /\ s.pc = "done" /\ s.world.exec.kind = "timeout" =>
             s.world.exec.left = {}

(***************************************************************************)
(* The HTTP adapter                                                        *)
(***************************************************************************)
SupportedMethods == {"initialize", "tools/list", "tools/call", "ping", "initialized"}

\* The HTTP response to the request of the slot.
Response(s) == s.responses[1]

\* C13: a POST to the MCP endpoint is answered with status 200 exactly when
\* the body has the member result and with 500 exactly when it has the member
\* error; a body that does not parse and a method that is not supported are
\* answered with 500, a run_tests result that reports success=false with 200.
C13_StatusFollowsEnvelope ==
    \A c \in Conns :
       LET s == conn[c]
           args == Doc(s).params.arguments
       IN  IsMcpPost(s) /\ s.pc = "done" =>
             /\ Response(s).status = 200 <=> "result" \in DOMAIN Response(s).body
             /\ Response(s).status = 500 <=> "error" \in DOMAIN Response(s).body
             /\ Doc(s).t = "malformed" => Response(s).status = 500
             /\ Doc(s).t = "object" /\ Doc(s).method \notin SupportedMethods =>
                  Response(s).status = 500
             /\ /\ IsCallOf(s, "run_tests")
                /\ HasArgsObject(s)
                /\ RunTestsFailure(Get(args, "testPattern"), Get(args, "framework"),
                                   s.world) # Undefined
                => /\ Response(s).status = 200
                   /\ Response(s).body.result.content[1].text =
                        StringifyTestResult(
                          [success |-> FALSE, output |-> "",
                           errors |-> RunTestsFailure(Get(args, "testPattern"),
                                                      Get(args, "framework"), s.world)])

\* A run_tests call whose command could not be started has been answered
\* with status 200.
C13_Witness ==
    \E c \in Conns :
       /\ IsMcpPost(conn[c])
       /\ IsCallOf(conn[c], "run_tests")
       /\ conn[c].pc = "done"
       /\ conn[c].world.exec.kind = "spawnerror"
       /\ Response(conn[c]).status = 200

\* C15: a POST to the MCP endpoint whose method is none of initialize,
\* tools/list, tools/call, ping and initialized reaches no tool handler and is
\* answered by a Failure envelope whose message is 'Unsupported method: '
\* followed by the method.
C15_UnsupportedMethodIsFailure ==
    \A c \in Conns :
       LET s == conn[c]
       IN  /\ IsMcpPost(s)
           /\ Doc(s).t = "object"
           /\ Doc(s).method \notin SupportedMethods
           => /\ s.call.handler = "none"
              /\ s.pc # "calling"
              /\ s.pc = "done" =>
                   /\ IsFailureEnv(Response(s).body)
                   /\ Response(s).body.error.message = "Unsupported method: " \o Doc(s).method

\* A resources/list request has been answered.
C15_Witness ==
    \E c \in Conns :
       /\ IsMcpPost(conn[c])
       /\ Doc(conn[c]).t = "object"
       /\ Doc(conn[c]).method = "resources/list"
       /\ conn[c].pc = "done"
       /\ IsFailureEnv(Response(conn[c]).body)

\* C16: no request ends the process: whatever has been received (malformed
\* JSON, unknown method, unknown tool, missing params or arguments, a handler
\* that throws), the process runs, a free slot accepts the next request, and
\* discovery requests answered after a Failure envelope return the tool list
\* of the transport.
C16_ServerSurvives ==
    /\ Running
    /\ \A c \in Conns :
          conn[c].pc = "free" =>
             ENABLED (HttpRequest(c) \/ StdioListTools(c) \/ StdioCallTool(c))
    /\ \A e \in listed : e.afterFault => e.tools = Advertised

\* The process runs after a Failure envelope was sent, and a discovery
\* request received since then has been answered.
C16_Witness ==
    /\ Running
    /\ faulted
    /\ \E e \in listed : e.afterFault /\ e.tools = Advertised

\* C17: an OPTIONS request, whatever its path and whether or not it carries a
\* body, is answered by the listener itself with status 200 and an empty
\* body: no chunk of its body is read, nothing is parsed or dispatched and no
\* tool handler is invoked.
C17_OptionsShortCircuits ==
    \A c \in Conns :
       LET s == conn[c]
       IN  transport = "http" /\ s.req.verb = "OPTIONS" =>
             /\ s.pc = "done"
             /\ Len(s.responses) = 1
             /\ Response(s).status = 200
             /\ Response(s).body = ""
             /\ s.body = <<>>
             /\ s.call.handler = "none"

\* An OPTIONS request that carries a JSON-RPC body has been answered.
C17_Witness ==
    \E c \in Conns :
       /\ transport = "http"
       /\ conn[c].req.verb = "OPTIONS"
       /\ conn[c].req.payload # <<>>
       /\ conn[c].pc = "done"

\* C18: every response the HTTP server sends carries the three CORS headers.
C18_CorsOnEveryResponse ==
    transport = "http" =>
      \A c \in Conns :
         \A i \in DOMAIN conn[c].responses :
            {"Access-Control-Allow-Origin", "Access-Control-Allow-Methods",
             "Access-Control-Allow-Headers"} \subseteq conn[c].responses[i].headers

\* A request for the /auth endpoint has been refused with status 401.
C18_Witness ==
    \E c \in Conns :
       /\ transport = "http"
       /\ conn[c].pc = "done"
       /\ Response(conn[c]).status = 401


(***************************************************************************)
(* One lifetime of the HTTP server, request by request                     *)
(***************************************************************************)
\* The number of requests the server receives before it is stopped.
MaxRequests == 2

Arrivals == 1 .. MaxRequests

LifetimeDocs ==
    {MalformedDoc,
     ObjDoc("resources/list", "2", NoParams),
     ObjDoc("initialize", "2", NoParams),
     ObjDoc("initialized", "2", NoParams),
     ObjDoc("tools/list", "2", NoParams),
     ObjDoc("tools/list", "7", NoParams),
     ObjDoc("tools/call", "2", Params("bogus", Obj(EmptyObject))),
     ObjDoc("tools/call", "2", Params("run_tests", UndefinedArgs)),
     ObjDoc("tools/call", "2", Params("analyze_codebase", Obj(EmptyObject))),
     ObjDoc("tools/call", "2", Params("analyze_codebase", Obj([projectPath |-> "/empty"])))}

\* Every document without an Authorization header, and the ping with each.
LifetimeRequests ==
    {HttpReq("POST", "/mcp", NoAuth, <<d>>) : d \in LifetimeDocs}
    \cup {HttpReq("POST", "/", a, <<ObjDoc("ping", "2", NoParams)>>) : a \in AuthHeaders}

LifetimeInit ==
    /\ env \in {e \in ProcessEnvs : EntryPoint(e) = "http"}
    /\ transport = EntryPoint(env)
    /\ conn = [c \in Arrivals |-> FreeSlot]
    /\ faulted = FALSE
    /\ listed = {}
    /\ exitCode = Undefined
    /\ walk = NoWalk

\* The c-th request of the lifetime arrives.
Arrive(c) ==
    /\ \A d \in Arrivals : d < c => conn[d].pc # "free"
    /\ HttpRequestFrom(c, LifetimeRequests)

LifetimeNext ==
    \E c \in Arrivals :
       \/ Arrive(c)
       \/ HttpData(c)
       \/ HttpEnd(c)
       \/ HttpCallComplete(c)

LifetimeSpec == LifetimeInit /\ [][LifetimeNext]_vars

\* The request of the slot has been answered by a Failure envelope.
Failed(s) == IsMcpPost(s) /\ s.pc = "done" /\ IsFailureEnv(Response(s).body)

\* The class of the error of a failed request: protocol (the body does not
\* parse, the method is unknown), dispatch (the tool is unknown, params or
\* arguments are missing) or internal (the tool handler threw).
ErrorClass(s) ==
    IF Doc(s).t # "object" \/ Doc(s).method \notin SupportedMethods THEN "protocol"
    ELSE IF s.call.handler = "none" THEN "dispatch"
    ELSE "internal"

\* C14: two Failure envelopes of different classes (protocol, dispatch,
\* internal) carry different error codes.
C14_ErrorCodesByClass ==
    \A c1, c2 \in Arrivals :
       Failed(conn[c1]) /\ Failed(conn[c2]) /\ ErrorClass(conn[c1]) # ErrorClass(conn[c2]) =>
          Response(conn[c1]).body.error.code # Response(conn[c2]).body.error.code

Answered(s, m) ==
    IsMcpPost(s) /\ s.pc = "done" /\ Doc(s).t = "object" /\ Doc(s).method = m

\* C20: initialize is answered with status 200 and the fixed metadata,
\* initialized and ping with status 200 and an empty object, whatever was
\* received before; tools/list is answered with the tool list and a
\* tools/call whose tool is advertised and whose handler does not throw with
\* the result of the handler, whether initialize was received or not.
C20_BringUpMethods ==
    \A c \in Arrivals :
       LET s == conn[c]
       IN  /\ Answered(s, "initialize") =>
                /\ Response(s).status = 200
                /\ Response(s).body.result =
                     [protocolVersion |-> "2024-11-05",
                      capabilities |-> [tools |-> EmptyObject],
                      serverInfo |-> [name |-> "ai-testing-mcp", version |-> "1.0.0"]]
           /\ Answered(s, "initialized") \/ Answered(s, "ping") =>
                /\ Response(s).status = 200
                /\ Response(s).body.result = EmptyObject
           /\ Answered(s, "tools/list") =>
                /\ Response(s).status = 200
                /\ Response(s).body.result = [tools |-> HttpTools]
           /\ Answered(s, "tools/call") /\ s.call.handler # "none"
                 /\ Invoke(s.call, s.world).t = "return" =>
                /\ Response(s).status = 200
                /\ Response(s).body.result = Invoke(s.call, s.world).v

\* No initialize was received: the first request was a tools/list, the
\* second a tools/call, and both have been answered with a result.
C20_Witness ==
    /\ Answered(conn[1], "tools/list")
    /\ Answered(conn[2], "tools/call")
    /\ IsSuccessEnv(Response(conn[1]).body)
    /\ IsSuccessEnv(Response(conn[2]).body)


\* C21: a GET request for /health is answered with status 200 and a body
\* that carries the status of the server and the tools it offers.
C21_HealthEndpoint ==
    \A c \in Conns :
       LET s == conn[c]
       IN  /\ transport = "http"
           /\ s.req.verb = "GET"
           /\ s.req.url = "/health"
           /\ s.pc = "done"
           => /\ Response(s).status = 200
              /\ {"status", "tools"} \subseteq DOMAIN Response(s).body

(***************************************************************************)
(* The start of the process                                                *)
(***************************************************************************)
\* VERCEL and NODE_ENV absent, empty or set.
StartEnvs ==
    {[VERCEL |-> v, NODE_ENV |-> n, MCP_API_KEY |-> Undefined] :
       v \in {Undefined, "", "1"}, n \in {Undefined, "production", "development"}}

StartInit ==
    /\ env \in StartEnvs
    /\ transport = EntryPoint(env)
    /\ conn = [c \in Conns |-> FreeSlot]
    /\ faulted = FALSE
    /\ listed = {}
    /\ exitCode = Undefined
    /\ walk = NoWalk

StartHttp(c) == HttpRequestFrom(c, LifetimeRequests)

\* The process after its start, serving a few requests on the transport the
\* entry point started.
StartNext ==
    \E c \in Conns :
       \/ StartHttp(c)
       \/ HttpData(c)
       \/ HttpEnd(c)
       \/ HttpCallComplete(c)
       \/ StdioListTools(c)
       \/ Close(c)

StartSpec == StartInit /\ [][StartNext]_vars

\* C22: the process runs one transport: HTTP when VERCEL has a value (the
\* empty string counts as none) or NODE_ENV is 'production', the standard
\* stream otherwise; requests are served by that transport only.
C22_OneTransport ==
    /\ transport \in {"http", "stdio"}
    /\ transport = "http" <=> (env.VERCEL \notin {Undefined, ""} \/ env.NODE_ENV = "production")
    /\ transport = "stdio" <=> (env.VERCEL \in {Undefined, ""} /\ env.NODE_ENV # "production")
    /\ \A c \in Conns :
          conn[c].pc # "free" => (conn[c].req.verb = "stdin") = (transport = "stdio")

\* A process started with NODE_ENV 'production' and no VERCEL has answered a
\* request over HTTP.
C22_Witness ==
    /\ env.VERCEL = Undefined
    /\ env.NODE_ENV = "production"
    /\ \E c \in Conns : conn[c].pc = "done" /\ conn[c].req.verb = "POST"


(***************************************************************************)
(* Termination                                                             *)
(***************************************************************************)
\* The SIGINT handler of setupErrorHandling: await this.server.close(), then
\* process.exit(0).  Closing the SDK Server settles within the microtasks of
\* the handler, so no I/O callback of a request runs in between; the HTTP
\* server is not closed and no request in flight is awaited.
Sigint ==
    /\ Running
    /\ exitCode' = "0"
    /\ UNCHANGED <<walk, env, transport, conn, faulted, listed>>

\* The process with its termination signal.
ShutdownNext ==
    \/ \E c \in Conns :
          \/ HttpRequest(c)
          \/ HttpData(c)
          \/ HttpEnd(c)
          \/ HttpCallComplete(c)
          \/ StdioListTools(c)
          \/ StdioCallTool(c)
          \/ StdioCallComplete(c)
          \/ ExecTimeout(c)
          \/ Close(c)
    \/ Sigint

ShutdownSpec == Init /\ [][ShutdownNext]_vars

\* C23: when the process has exited on SIGINT, its exit code is 0 and no
\* request is left in flight: every dispatch that was in flight when the
\* signal came has completed or timed out and has been answered.
C23_OrderlyShutdown ==
    exitCode # Undefined =>
       /\ exitCode = "0"
       /\ \A c \in Conns : conn[c].pc \in {"free", "done"}


\* What the 'end' handler makes of a body and of what the handler it awaits
\* finds outside the process.
OutcomeOf(payload, w) ==
    LET out == HttpDispatch(payload)
    IN  IF out.t = "await" THEN Invoke(out.inv, w) ELSE out

\* C24: with several requests in flight over HTTP, whatever the order of
\* their chunks, 'end' events and handler completions, each request has read
\* chunks of its own body only, has called the handler its own body names,
\* and has been answered once with the envelope that follows from its own
\* body (id, tool name, arguments) and from what its own handler found.
C24_RequestsIsolated ==
    \A c \in Arrivals :
       LET s == conn[c]
           out == OutcomeOf(s.req.payload, s.world)
       IN  IsMcpPost(s) /\ s.pc # "free" =>
             /\ Len(s.body) <= Len(s.req.payload)
             /\ s.body = SubSeq(s.req.payload, 1, Len(s.body))
             /\ s.pc \in {"calling", "done"} =>
                  s.call = IF HttpDispatch(s.req.payload).t = "await"
                           THEN HttpDispatch(s.req.payload).inv
                           ELSE NoHandler
             /\ s.pc = "done" =>
                  /\ Len(s.responses) = 1
                  /\ Response(s).body =
                       IF out.t = "return"
                       THEN [jsonrpc |-> "2.0", result |-> out.v,
                             id |-> OrElse(Doc(s).id, Null)]
                       ELSE [jsonrpc |-> "2.0",
                             error |-> [code |-> -32000, message |-> out.m],
                             id |-> Null]

\* The second request was received, handled and answered while the handler
\* of the first, a different request, was still awaited.
C24_Witness ==
    /\ conn[1].pc = "calling"
    /\ conn[2].pc = "done"
    /\ conn[1].req.payload # conn[2].req.payload
    /\ IsMcpPost(conn[2])
    /\ IsSuccessEnv(Response(conn[2]).body)
    /\ Response(conn[2]).body.id = "7"


(***************************************************************************)
(* The tools                                                               *)
(***************************************************************************)
\* The text of the single block of a Success envelope.
ResultText(s) == Envelope(s).result.content[1].text

\* C25: a run_tests call that names no framework is never answered
\* 'Unsupported test framework': runTests runs the suite of whatever
\* framework detectTestFramework returned (jest, mocha, vitest, pytest, go).
C25_DetectedFrameworkRuns ==
    \A c \in Conns :
       LET s == conn[c]
           args == Doc(s).params.arguments
       IN  /\ IsCallOf(s, "run_tests")
           /\ HasArgsObject(s)
           /\ ~Truthy(Get(args, "framework"))
           /\ s.pc = "done"
           => ResultText(s) #
                StringifyTestResult(
                  [success |-> FALSE, output |-> "",
                   errors |-> "Unsupported test framework: "
                                 \o detectTestFramework(s.world.manifest)])

\* C26: a call to a tool the transport advertises, whose arguments object
\* has exactly the fields the tool's inputSchema lists under required, is
\* not rejected as 'Missing arguments': it reaches the handler of the tool.
C26_MinimalCallAccepted ==
    \A c \in Conns :
       LET s == conn[c]
       IN  /\ IsCall(s)
           /\ HasArgsObject(s)
           /\ Doc(s).params.name \in Range(ToolNames(Advertised))
           /\ DOMAIN Doc(s).params.arguments.obj =
                Range(ToolByName(Doc(s).params.name).inputSchema.required)
           /\ s.pc \in {"calling", "done"}
           => /\ s.call.handler # "none"
              /\ s.call.tool = Doc(s).params.name
              /\ s.pc = "done" /\ IsFailureEnv(Envelope(s)) =>
                   Envelope(s).error.message # "Missing arguments"

\* generate_unit_tests, called with its one required field, has been
\* answered.
C26_Witness ==
    \E c \in Conns :
       /\ IsCallOf(conn[c], "generate_unit_tests")
       /\ HasArgsObject(conn[c])
       /\ DOMAIN Doc(conn[c]).params.arguments.obj = {"filePath"}
       /\ conn[c].call.handler = "generateUnitTests"
       /\ conn[c].pc = "done"

\* C27: the result of every tools/call answered by a Success envelope is a
\* content sequence of one block, of type 'text', whose text is a string.
C27_OneTextBlock ==
    \A c \in Conns :
       LET s == conn[c]
       IN  IsCall(s) /\ s.pc = "done" /\ IsSuccessEnv(Envelope(s)) =>
             /\ DOMAIN Envelope(s).result = {"content"}
             /\ Len(Envelope(s).result.content) = 1
             /\ DOMAIN Envelope(s).result.content[1] = {"type", "text"}
             /\ Envelope(s).result.content[1].type = "text"
             /\ ResultText(s) \in STRING

\* A call to a placeholder handler has been answered.
C27_Witness ==
    \E c \in Conns :
       /\ IsCallOf(conn[c], "suggest_fixes")
       /\ conn[c].call.handler = "suggestFixes"
       /\ conn[c].pc = "done"
       /\ IsSuccessEnv(Envelope(conn[c]))

\* C28: generate_unit_tests on a .js or .ts file that can be read returns
\* test code that is not empty for each of the frameworks jest, mocha and
\* vitest, and on a .py file test code that is not empty.
C28_GeneratedTestsNotEmpty ==
    \A c \in Conns :
       LET s == conn[c]
           args == Doc(s).params.arguments
           fp == Get(args, "filePath")
       IN  /\ IsCallOf(s, "generate_unit_tests")
           /\ HasArgsObject(s)
           /\ s.call.handler = "generateUnitTests"
           /\ s.pc = "done"
           /\ fp # Undefined /\ FileExists(fp)
           /\ \/ FileOf(fp).ext \in {".js", ".ts"}
                    /\ Get(args, "testFramework") \in {"jest", "mocha", "vitest"}
              \/ FileOf(fp).ext = ".py"
           => /\ IsSuccessEnv(Envelope(s))
              /\ ResultText(s) # ""


(***************************************************************************)
(* The choice of the test framework                                        *)
(***************************************************************************)
\* run_tests on the directory that can hold every combination of manifests,
\* without a framework, with an empty one, with pytest and with mocha.
DetectParams ==
    {Params("run_tests", Obj([projectPath |-> "/any"]))}
    \cup {Params("run_tests", Obj([projectPath |-> "/any", framework |-> f])) :
            f \in {"", "pytest", "mocha"}}

DetectHttpRequests ==
    {HttpReq("POST", "/mcp", NoAuth, <<ObjDoc("tools/call", "2", p)>>) : p \in DetectParams}

DetectStdioRequests ==
    {HttpReq("stdin", Undefined, NoAuth, <<ObjDoc("tools/call", "2", p)>>) : p \in DetectParams}

\* One call at a time is enough to apply the function.
FirstConn == {c \in Conns : c = 1}

HttpDetect(c) == HttpRequestFrom(c, DetectHttpRequests)

StdioDetect(c) == StdioCallToolFrom(c, DetectStdioRequests)

DetectNext ==
    \E c \in FirstConn :
       \/ HttpDetect(c)
       \/ HttpData(c)
       \/ HttpEnd(c)
       \/ HttpCallComplete(c)
       \/ StdioDetect(c)
       \/ StdioCallComplete(c)
       \/ ExecTimeout(c)
       \/ Close(c)

DetectSpec == Init /\ [][DetectNext]_vars

\* C29: the answer to a run_tests call is the one of the framework the
\* caller gave, when it gave one that is not empty; otherwise of jest, mocha
\* or vitest, in this order, when package.json parses and lists it; else of
\* pytest when requirements.txt exists; else of go when go.mod exists; else
\* of jest.
\* A package.json that is absent or does not parse leaves the choice to the
\* later checks.
C29_FrameworkChoice ==
    \A c \in Conns :
       LET s == conn[c]
           args == Doc(s).params.arguments
           given == Get(args, "framework")
           m == s.world.manifest
           fw == IF given \notin {Undefined, ""} THEN given
                 ELSE IF m.pkg = "parsed" /\ "jest" \in m.deps THEN "jest"
                 ELSE IF m.pkg = "parsed" /\ "mocha" \in m.deps THEN "mocha"
                 ELSE IF m.pkg = "parsed" /\ "vitest" \in m.deps THEN "vitest"
                 ELSE IF m.requirements THEN "pytest"
                 ELSE IF m.gomod THEN "go"
                 ELSE "jest"
           cmd == IF fw = "jest" THEN "npx jest --verbose --coverage"
                  ELSE IF fw = "pytest" THEN "python -m pytest -v --cov=."
                  ELSE IF fw = "go" THEN "go test -v -cover"
                  ELSE Undefined
           e == s.world.exec
       IN  IsCallOf(s, "run_tests") /\ HasArgsObject(s) /\ s.pc = "done" =>
             /\ IsSuccessEnv(Envelope(s))
             /\ (cmd = Undefined) = (e.kind = "none")
             /\ ResultText(s) =
                  IF cmd = Undefined
                  THEN StringifyTestResult([success |-> FALSE, output |-> "",
                          errors |-> "Unsupported test framework: " \o fw])
                  ELSE IF e.kind = "exit0"
                  THEN StringifyTestResult([success |-> e.stderr = "",
                          output |-> e.stdout, errors |-> e.stderr])
                  ELSE IF e.kind = "spawnerror"
                  THEN StringifyTestResult([success |-> FALSE, output |-> "",
                          errors |-> "spawn /bin/sh ENOENT"])
                  ELSE StringifyTestResult([success |-> FALSE, output |-> "",
                          errors |-> "Command failed: " \o cmd \o "\n" \o e.stderr])

\* Without a framework from the caller, in a directory whose package.json
\* does not parse and that holds requirements.txt and go.mod, the pytest
\* command was run and failed.
C29_Witness ==
    \E c \in Conns :
       /\ IsCallOf(conn[c], "run_tests")
       /\ Get(Doc(conn[c]).params.arguments, "framework") = Undefined
       /\ conn[c].pc = "done"
       /\ conn[c].world.manifest.pkg = "unparsable"
       /\ conn[c].world.manifest.requirements
       /\ conn[c].world.manifest.gomod
       /\ conn[c].world.exec.kind = "nonzero"
       /\ ResultText(conn[c]) =
            StringifyTestResult([success |-> FALSE, output |-> "",
               errors |-> "Command failed: python -m pytest -v --cov=.\n1 failed"])


(***************************************************************************)
(* The walker                                                              *)
(***************************************************************************)
\* Number of entries (files, directories, others) below the root.
MaxEntries == 3

\* The names an entry can have, in the order readdir lists them.
Names == <<".git", "a", "node_modules">>

\* What stat reports for an entry: a regular file, a directory, or neither
\* (a socket, a FIFO).
Kinds == {"file", "dir", "other"}

\* A tree is a set of entries [path, kind]; a path is the sequence of names
\* from the root, and dir followed by item stands for join(dir, item).
Stat(tree, path) == (CHOOSE e \in tree : e.path = path).kind

\* fs.readdir(dir)
Readdir(tree, dir) ==
    SelectSeq(Names, LAMBDA n : \E e \in tree : e.path = Append(dir, n))

\* A walker that keeps out of node_modules only.
SkippedDirModulesOnly(item) == item = "node_modules"

\* item.startsWith('.') || item === 'node_modules'
SkippedDir(item) == item \in {".git"} \/ item = "node_modules"

RECURSIVE getAllFiles(_, _, _)
RECURSIVE WalkItems(_, _, _, _)
\* The loop of getAllFiles over the items that are left.
WalkItems(tree, dir, items, files) ==
    IF items = <<>> THEN files
    ELSE LET item == Head(items)
             fullPath == Append(dir, item)
             kind == Stat(tree, fullPath)
         IN  WalkItems(tree, dir, Tail(items),
                       IF kind = "dir" /\ ~SkippedDir(item)
                       THEN getAllFiles(tree, fullPath, files)
                       ELSE IF kind = "file" THEN Append(files, fullPath)
                       ELSE files)

getAllFiles(tree, dir, files) == WalkItems(tree, dir, Readdir(tree, dir), files)

\* An entry is created below the root or below a directory of the tree.
Grow ==
    /\ ~walk.returned
    /\ Cardinality(walk.tree) < MaxEntries
    /\ \E parent \in {<<>>} \cup {e.path : e \in {d \in walk.tree : d.kind = "dir"}},
          n \in Range(Names), k \in Kinds :
          /\ \A e \in walk.tree : e.path # Append(parent, n)
          /\ walk' = [walk EXCEPT !.tree = @ \cup {[path |-> Append(parent, n), kind |-> k]}]
    /\ UNCHANGED <<exitCode, env, transport, conn, faulted, listed>>

\* getAllFiles(root) is called and returns.
Walk ==
    /\ ~walk.returned
    /\ walk' = [walk EXCEPT !.returned = TRUE,
                            !.files = getAllFiles(walk.tree, <<>>, <<>>)]
    /\ UNCHANGED <<exitCode, env, transport, conn, faulted, listed>>

WalkNext == Grow \/ Walk

WalkSpec == Init /\ [][WalkNext]_vars

\* C30: getAllFiles returns, each once, the regular files of the tree that
\* no directory on the way from the root hides (a directory whose name starts
\* with '.' or is node_modules); a regular file whose own name starts with
\* '.' is among them, and nothing inside a hidden directory is.
C30_WalkerReturnsVisibleFiles ==
    walk.returned =>
       LET Visible(p) ==
               \A i \in 1 .. (Len(p) - 1) : p[i] # ".git" /\ p[i] # "node_modules"
           expected == {e.path : e \in {f \in walk.tree : f.kind = "file" /\ Visible(f.path)}}
       IN  /\ Range(walk.files) = expected
           /\ Len(walk.files) = Cardinality(expected)

\* The walker has returned a file whose name starts with '.' and has left
\* out a file inside node_modules.
C30_Witness ==
    /\ walk.returned
    /\ [path |-> <<"node_modules", "a">>, kind |-> "file"] \in walk.tree
    /\ walk.files = <<<<".git">>>>


(***************************************************************************)
(* The walker on a tree with symbolic links, item by item                  *)
(***************************************************************************)
\* The number of symbolic links the system follows while it resolves one
\* path before stat fails with ELOOP (40 on Linux, scaled down).
MaxLinkHops == 2

\* stat never failing with ELOOP.
TooManyLinksNever(hops) == FALSE

\* fs.stat(fullPath) fails with ELOOP: the path goes through hops links.
TooManyLinks(hops) == hops > MaxLinkHops

\* The directories a link created below the directory parent can point to:
\* parent and what is above it.
Ancestors(parent) == {SubSeq(parent, 1, n) : n \in 0 .. Len(parent)}

\* An entry is created below the root or below a directory of the tree: a
\* regular file, a directory, or a symbolic link to a directory above it.
GrowLinked ==
    /\ ~walk.returned /\ ~walk.failed /\ walk.stack = <<>>
    /\ Cardinality(walk.tree) < MaxEntries
    /\ \E parent \in {<<>>} \cup {e.path : e \in {d \in walk.tree : d.kind = "dir"}},
          n \in Range(Names) :
          /\ \A e \in walk.tree : e.path # Append(parent, n)
          /\ \/ \E k \in {"file", "dir"} :
                   walk' = [walk EXCEPT !.tree =
                              @ \cup {[path |-> Append(parent, n), kind |-> k]}]
             \/ \E t \in Ancestors(parent) :
                   walk' = [walk EXCEPT !.tree =
                              @ \cup {[path |-> Append(parent, n), kind |-> "link",
                                       target |-> t]}]
    /\ UNCHANGED <<exitCode, env, transport, conn, faulted, listed>>

\* A call of getAllFiles: dir is the path it was given, real the directory
\* that path resolves to, hops the links on the way, items what is left of
\* the result of readdir.
Frame(tree, dir, real, hops) ==
    [dir |-> dir, real |-> real, hops |-> hops, items |-> Readdir(tree, real)]

\* getAllFiles(root) is called.
WalkStart ==
    /\ ~walk.returned /\ ~walk.failed /\ walk.stack = <<>>
    /\ walk' = [walk EXCEPT !.stack = <<Frame(walk.tree, <<>>, <<>>, 0)>>]
    /\ UNCHANGED <<exitCode, env, transport, conn, faulted, listed>>

\* One turn of the for loop of the innermost call, or its return.
WalkStep ==
    /\ walk.stack # <<>>
    /\ LET depth == Len(walk.stack)
           top == walk.stack[depth]
           rest == SubSeq(walk.stack, 1, depth - 1)
       IN  IF top.items = <<>>
           THEN walk' = [walk EXCEPT !.stack = rest, !.returned = (rest = <<>>)]
           ELSE LET item == Head(top.items)
                    fullPath == Append(top.dir, item)
                    e == CHOOSE x \in walk.tree : x.path = Append(top.real, item)
                    hops == IF e.kind = "link" THEN top.hops + 1 ELSE top.hops
                    isDirectory == e.kind \in {"dir", "link"}
                    real == IF e.kind = "link" THEN e.target ELSE e.path
                    after == Append(rest, [top EXCEPT !.items = Tail(@)])
                IN  IF TooManyLinks(hops)
                    THEN walk' = [walk EXCEPT !.stack = <<>>, !.failed = TRUE]
                    ELSE IF isDirectory /\ ~SkippedDir(item)
                    THEN walk' = [walk EXCEPT !.stack =
                                    Append(after, Frame(walk.tree, fullPath, real, hops))]
                    ELSE IF e.kind = "file"
                    THEN walk' = [walk EXCEPT !.stack = after,
                                              !.files = Append(@, fullPath)]
                    ELSE walk' = [walk EXCEPT !.stack = after]
    /\ UNCHANGED <<exitCode, env, transport, conn, faulted, listed>>

LinkWalkNext == GrowLinked \/ WalkStart \/ WalkStep

LinkWalkSpec == Init /\ [][LinkWalkNext]_vars

\* The deepest a walk can nest: between two links of a path it descends
\* through directories of the tree, each at most once.
WalkDepthLimit == (1 + MaxEntries) * (1 + MaxLinkHops)

C32_SuccessOnlyOnCleanExit ==
    \A c \in Conns :
       LET s == conn[c]
           e == s.world.exec
           pattern == Get(Doc(s).params.arguments, "testPattern")
       IN  /\ IsCallOf(s, "run_tests")
           /\ HasArgsObject(s)
           /\ s.pc = "done"
           /\ e.kind # "none"
           => /\ e.kind = "exit0" /\ e.stderr = "" =>
                   ResultText(s) = StringifyTestResult(
                       [success |-> TRUE, output |-> e.stdout, errors |-> ""])
              /\ e.kind = "exit0" /\ e.stderr # "" =>
                   ResultText(s) = StringifyTestResult(
                       [success |-> FALSE, output |-> e.stdout, errors |-> e.stderr])
              /\ e.kind # "exit0" =>
                   \E fw \in {"jest", "pytest", "go"} :
                      ResultText(s) = StringifyTestResult(
                          [success |-> FALSE, output |-> "",
                           errors |-> ExecError(RunTestsCommand(fw, pattern), e)])
              /\ (\E out \in {"", e.stdout}, err \in {"", e.stderr} :
                     ResultText(s) = StringifyTestResult(
                         [success |-> TRUE, output |-> out, errors |-> err]))
                 => e.kind = "exit0" /\ e.stderr = ""

\* A run_tests call whose command ended with code 0 after writing a warning
\* to stderr has been answered.
C32_Witness ==
    \E c \in Conns :
       /\ IsCallOf(conn[c], "run_tests")
       /\ HasArgsObject(conn[c])
       /\ conn[c].pc = "done"
       /\ conn[c].world.exec.kind = "exit0"
       /\ conn[c].world.exec.stderr = "warning"
       /\ conn[c].world.exec.stdout = "PASS"


(***************************************************************************)
(* The classification of the scanned files                                 *)
(***************************************************************************)
MaxScanned == 2

ScanDirs == {"/proj/", "/Tests/", "/inspector/"}

ScanBases == {"a", "Spec", "contest"}

ScanExts == {".js", ".JS", ".c", ".txt", ""}

\* The files getAllFiles may return.
ScanFiles ==
    {LET pieces == <<d, b>> \o (IF x = "" THEN <<>> ELSE <<x>>)
     IN  [path |-> d \o b \o x, pieces |-> pieces, ext |-> extname(pieces),
          endpoints |-> <<>>, functions |-> <<>>] :
       d \in ScanDirs, b \in ScanBases, x \in ScanExts}

\* getAllFiles pushes one more file.
Found ==
    /\ ~walk.analysed
    /\ walk.tree = {} /\ walk.stack = <<>> /\ ~walk.returned
    /\ Len(walk.scanned) < MaxScanned
    /\ \E f \in ScanFiles :
          /\ \A i \in DOMAIN walk.scanned : walk.scanned[i].path # f.path
          /\ walk' = [walk EXCEPT !.scanned = Append(@, f)]
    /\ UNCHANGED <<exitCode, env, transport, conn, faulted, listed>>

\* The for loop of analyzeCodebase over the files getAllFiles returned.
Classify ==
    /\ ~walk.analysed
    /\ walk.tree = {} /\ walk.stack = <<>> /\ ~walk.returned
    /\ walk' = [walk EXCEPT !.analysed = TRUE,
                            !.testableComponents = TestableComponents(walk.scanned),
                            !.existingTests = ExistingTests(walk.scanned)]
    /\ UNCHANGED <<exitCode, env, transport, conn, faulted, listed>>

ScanNext == Found \/ Classify

ScanSpec == Init /\ [][ScanNext]_vars

\* The lower-cased path holds 'test' or 'spec'.
LowerHasTestOrSpec(f) ==
    \E i \in DOMAIN f.pieces :
       toLowerCase(f.pieces)[i] \in {"/tests/", ".test", "contest", "spec", "/inspector/"}

\* C33: in an analysis, no path is in both testableComponents and
\* existingTests; a path is in testableComponents only if its extension is
\* one of .js .ts .py .go .java .cpp .c and its lower-cased path holds
\* neither 'test' nor 'spec'; every scanned file whose lower-cased path holds
\* 'test' or 'spec' is in existingTests.
C33_TestableAndTestsDisjoint ==
    walk.analysed =>
       /\ Range(walk.testableComponents) \cap Range(walk.existingTests) = {}
       /\ \A i \in DOMAIN walk.scanned :
             LET f == walk.scanned[i]
             IN  /\ f.path \in Range(walk.testableComponents) =>
                       /\ f.ext \in {".js", ".ts", ".py", ".go", ".java", ".cpp", ".c"}
                       /\ ~LowerHasTestOrSpec(f)
                 /\ LowerHasTestOrSpec(f) => f.path \in Range(walk.existingTests)
       /\ Range(walk.testableComponents) \cup Range(walk.existingTests)
             \subseteq {walk.scanned[i].path : i \in DOMAIN walk.scanned}

\* An analysis of a source file and of a file whose name holds 'Spec' with a
\* capital: the first is testable, the second an existing test.
C33_Witness ==
    /\ walk.analysed
    /\ walk.testableComponents = <<"/proj/a.js">>
    /\ walk.existingTests = <<"/proj/Spec.js">>


\* The causes the scan of a project directory can fail with: the directory
\* cannot be listed, or one of its files cannot be read.
ScanErrors(projectPath) ==
    {FsError("scandir", projectPath)}
    \cup {ReadError(DirFiles(projectPath)[i]) : i \in DOMAIN DirFiles(projectPath)}

\* C34: when the project directory cannot be listed or one of the scanned
\* files cannot be read, whichever it is and whatever was collected before
\* it, the answer to analyze_codebase carries no analysis: over HTTP it is a
\* Failure envelope whose message is 'Failed to analyze codebase: ' followed
\* by the cause, over the standard stream the text is that message behind
\* 'Error executing analyze_codebase: '.  When everything can be listed and
\* read, the answer is an analysis, and with a package.json that is absent
\* or does not parse and no requirements.txt its language is '' and it has
\* neither testFramework nor framework.
C34_AnalysisAllOrNothing ==
    \A c \in Conns :
       LET s == conn[c]
           projectPath == Get(Doc(s).params.arguments, "projectPath")
           w == s.world
           fails == projectPath = Undefined \/ ~DirExists(projectPath) \/ w.unreadable # 0
           files == DirFiles(projectPath)
       IN  IsCallOf(s, "analyze_codebase") /\ HasArgsObject(s) /\ s.pc = "done" =>
             /\ fails /\ transport = "http" =>
                  /\ IsFailureEnv(Envelope(s))
                  /\ \E cause \in ScanErrors(projectPath) :
                        Envelope(s).error.message = "Failed to analyze codebase: " \o cause
             /\ fails /\ transport = "stdio" =>
                  \E cause \in ScanErrors(projectPath) :
                     ResultText(s) = "Error executing analyze_codebase: "
                                        \o "Failed to analyze codebase: " \o cause
             /\ ~fails =>
                  /\ IsSuccessEnv(Envelope(s))
                  /\ \E m \in AllManifests \cup ProjManifests :
                        ResultText(s) = StringifyAnalysis(Analysis(m, files))
                  /\ w.manifest.pkg # "parsed" /\ ~w.manifest.requirements =>
                        ResultText(s) = StringifyAnalysis(
                           [language |-> "", testFramework |-> Undefined,
                            framework |-> Undefined,
                            apiEndpoints |-> ApiEndpoints(files),
                            testableComponents |-> TestableComponents(files),
                            existingTests |-> ExistingTests(files)])

\* An analyze_codebase call over HTTP has failed on the third file of the
\* project, after two files were read.
C34_Witness ==
    \E c \in Conns :
       /\ transport = "http"
       /\ IsCallOf(conn[c], "analyze_codebase")
       /\ HasArgsObject(conn[c])
       /\ conn[c].pc = "done"
       /\ conn[c].world.unreadable = 3
       /\ IsFailureEnv(Envelope(conn[c]))


(***************************************************************************)
(* The command line of run_tests                                           *)
(***************************************************************************)
\* run_tests on the project with one of the three frameworks of the switch,
\* without a testPattern and with one: a plain word, two words, a quoted
\* text, a text with a semicolon.
PatternParams ==
    {Params("run_tests", Obj([projectPath |-> "/proj", framework |-> f])) :
        f \in {"jest", "pytest", "go"}}
    \cup {Params("run_tests", Obj([projectPath |-> "/proj", framework |-> f,
                                   testPattern |-> t])) :
            f \in {"jest", "pytest", "go"},
            t \in {"src", "a b", "'a b'", "x; touch /tmp/p"}}

PatternHttpRequests ==
    {HttpReq("POST", "/mcp", NoAuth, <<ObjDoc("tools/call", "2", p)>>) : p \in PatternParams}

PatternStdioRequests ==
    {HttpReq("stdin", Undefined, NoAuth, <<ObjDoc("tools/call", "2", p)>>) : p \in PatternParams}

HttpPattern(c) == HttpRequestFrom(c, PatternHttpRequests)

StdioPattern(c) == StdioCallToolFrom(c, PatternStdioRequests)

PatternNext ==
    \E c \in FirstConn :
       \/ HttpPattern(c)
       \/ HttpData(c)
       \/ HttpEnd(c)
       \/ HttpCallComplete(c)
       \/ StdioPattern(c)
       \/ StdioCallComplete(c)
       \/ ExecTimeout(c)
       \/ Close(c)

PatternSpec == Init /\ [][PatternNext]_vars

\* C35: what the shell has run for a run_tests call is one command, npx
\* jest, python -m pytest or go test with their fixed options, with the
\* caller's testPattern, when given, as one argument of it.
C35_OnlyTheFixedCommand ==
    \A c \in Conns :
       LET s == conn[c]
           args == Doc(s).params.arguments
           fw == Get(args, "framework")
           testPattern == Get(args, "testPattern")
           pat == IF testPattern \in {Undefined, ""} THEN <<>> ELSE <<testPattern>>
       IN  /\ IsCallOf(s, "run_tests")
           /\ HasArgsObject(s)
           /\ s.pc = "done"
           /\ fw \in {"jest", "pytest", "go"}
           /\ s.world.exec.kind \notin {"none", "spawnerror"}
           => s.ran =
                <<IF fw = "jest" THEN <<"npx", "jest">> \o pat \o <<"--verbose", "--coverage">>
                  ELSE IF fw = "pytest"
                  THEN <<"python", "-m", "pytest">> \o pat \o <<"-v", "--cov=.">>
                  ELSE <<"go", "test">> \o pat \o <<"-v", "-cover">>>>


(***************************************************************************)
(* The key check of POST /auth                                             *)
(***************************************************************************)
\* The process started for HTTP with MCP_API_KEY unset, empty or set.
AuthEnvs ==
    {[VERCEL |-> "1", NODE_ENV |-> Undefined, MCP_API_KEY |-> k] :
       k \in {Undefined, "", "secret", "Bearer secret"}}

\* No header, an empty one, 'Bearer ' alone, and keys with and without the
\* prefix.
AuthProbes ==
    {NoAuth, Auth(FALSE, ""), Auth(TRUE, "")}
    \cup {Auth(b, k) : b \in BOOLEAN, k \in {"default-dev-key", "secret", "other"}}
    \cup {Auth(TRUE, "Bearer secret")}

AuthRequests ==
    {HttpReq("POST", "/auth", a, <<>>) : a \in AuthProbes}
    \cup {HttpReq("POST", "/auth", a, <<ObjDoc("tools/list", "2", NoParams)>>) :
            a \in {NoAuth, Auth(TRUE, "secret")}}
    \cup {HttpReq("POST", "/mcp", a, <<ObjDoc("tools/list", "2", NoParams)>>) :
            a \in {NoAuth, Auth(TRUE, "secret")}}
    \cup {HttpReq("GET", "/auth", Auth(TRUE, "secret"), <<>>)}

AuthInit ==
    /\ env \in AuthEnvs
    /\ transport = EntryPoint(env)
    /\ conn = [c \in Conns |-> FreeSlot]
    /\ faulted = FALSE
    /\ listed = {}
    /\ exitCode = Undefined
    /\ walk = NoWalk

AuthRequest(c) == HttpRequestFrom(c, AuthRequests)

AuthNext ==
    \E c \in FirstConn :
       \/ AuthRequest(c)
       \/ HttpData(c)
       \/ HttpEnd(c)
       \/ Close(c)

AuthSpec == AuthInit /\ [][AuthNext]_vars

\* C36: a POST to /auth is answered at once, with 200 and authenticated true
\* exactly when the Authorization header is there and what follows its
\* optional 'Bearer ' is the key, MCP_API_KEY or 'default-dev-key' when that
\* is unset or empty, and with 401 and authenticated false otherwise; its
\* body is not read and no method is dispatched for it.
C36_AuthAnswersByKey ==
    \A c \in Conns :
       LET s == conn[c]
           a == s.req.authorization
           key == IF env.MCP_API_KEY \in {Undefined, ""} THEN "default-dev-key"
                  ELSE env.MCP_API_KEY
           valid == a.present /\ a.rest = key
       IN  s.req.verb = "POST" /\ s.req.url = "/auth" =>
             /\ s.pc = "done"
             /\ s.body = <<>>
             /\ s.call = NoHandler
             /\ Len(s.responses) = 1
             /\ Response(s).status = (IF valid THEN 200 ELSE 401)
             /\ Response(s).body.authenticated = valid
             /\ s.world = NoWorld /\ s.ran = <<>>

\* With MCP_API_KEY set to 'Bearer secret', a POST to /auth with the header
\* 'Bearer Bearer secret' has been answered 200.
C36_Witness ==
    \E c \in Conns :
       /\ env.MCP_API_KEY = "Bearer secret"
       /\ conn[c].req.verb = "POST" /\ conn[c].req.url = "/auth"
       /\ conn[c].req.authorization = Auth(TRUE, "Bearer secret")
       /\ conn[c].pc = "done"
       /\ Response(conn[c]).status = 200


\* C37: over the standard stream, a tools/call that has an arguments object
\* is answered by a result with one text block; when the tool name is not
\* one of the switch or the tool handler throws, the text is
\* 'Error executing <name>: <message>'.  A tools/call is answered by an
\* error only when it has no arguments object, and with params present the
\* message is then 'Missing arguments'.
C37_StdioErrorsAreResults ==
    \A c \in Conns :
       LET s == conn[c]
           name == Doc(s).params.name
       IN  transport = "stdio" /\ IsCall(s) /\ s.pc = "done" =>
             /\ HasArgsObject(s) =>
                  /\ IsSuccessEnv(Envelope(s))
                  /\ Len(Envelope(s).result.content) = 1
                  /\ Envelope(s).result.content[1].type = "text"
                  /\ name \notin Range(ToolNames(StdioTools)) =>
                        ResultText(s) = "Error executing " \o name
                                           \o ": Unknown tool: " \o name
                  /\ s.call.handler # "none" /\ Invoke(s.call, s.world).t = "throw" =>
                        ResultText(s) = "Error executing " \o name \o ": "
                                           \o Invoke(s.call, s.world).m
             /\ IsFailureEnv(Envelope(s)) =>
                  /\ ~HasArgsObject(s)
                  /\ s.call = NoHandler
                  /\ Doc(s).params.kind = "object" =>
                       Envelope(s).error.message = "Missing arguments"

\* Over the standard stream, analyze_codebase on a directory that does not
\* exist has thrown and the call has been answered.
C37_Witness ==
    \E c \in Conns :
       /\ transport = "stdio"
       /\ IsCall(conn[c])
       /\ HasArgsObject(conn[c])
       /\ conn[c].pc = "done"
       /\ conn[c].call.handler = "analyzeCodebase"
       /\ Invoke(conn[c].call, conn[c].world).t = "throw"
       /\ Get(Doc(conn[c]).params.arguments, "projectPath") = "/missing"

====
